---- MODULE Spec2Model ----
(***************************************************************************)
(* Model of the WebSocket room relay (class WSServer) of the               *)
(* phase-web-api service.  Every handler of the class runs to completion   *)
(* on the single-threaded event loop (the async handlers contain no await  *)
(* that yields before they finish), so one action is one handled event.    *)
(***************************************************************************)
EXTENDS Integers, Sequences, FiniteSets, TLC

(* ------------------------------ bounds -------------------------------- *)
NumConns == 2
\* at most MaxRooms rooms are ever created
MaxRooms == 2
\* a client sends at most MaxChats numbered chat messages (SpecFifo)
MaxChats == 2
\* at most MaxAdds messages are added to the history of a ChatSDK
MaxAdds == 4
\* setMaxHistoryLength is called with 0 .. MaxLen
MaxLen == 3
\* set is called at most MaxSets times on the MemoryDatabase
MaxSets == 2
\* the ttl given to set is 0 .. MaxTtl seconds
MaxTtl == 2
\* the clock advances MaxTime seconds
MaxTime == 3

Conns == 1..NumConns

(* ------------------------ values on the wire -------------------------- *)
\* a field that is absent from the JSON payload (JavaScript undefined)
Undefined == "<undefined>"
RoomNames == {"alpha", "beta"}
UserRole == {"product_manager", "developer"}
Contents == {"hi"}

\* !v of JavaScript for a string or undefined
Falsy(v) == v \in {Undefined, ""}

\* payload of a frame that carries no payload field at all
NullPayload == [absent |-> TRUE]
HasPayload(p) == "absent" \notin DOMAIN p

JoinPayload(roomName, userName, userRole) ==
    [roomName |-> roomName, userName |-> userName, userRole |-> userRole]

\* the join_room payloads clients send: the first client joins alpha under
\* one identity and every other room name under another one (so that a
\* session changes its name and role when it switches rooms), the other
\* clients join under one identity each; and one payload for each way of
\* being invalid
Identities(c, roomName) ==
    IF c = 1
    THEN IF roomName = "alpha" THEN {<<"Alice", "product_manager">>}
         ELSE {<<"Bob", "developer">>}
    ELSE IF c % 2 = 0 THEN {<<"Bob", "developer">>}
    ELSE {<<"Carol", "product_manager">>}
ValidJoinPayloads(c) ==
    UNION {{JoinPayload(n, i[1], i[2]) : i \in Identities(c, n)} : n \in RoomNames}
InvalidJoinPayloads ==
    {JoinPayload(Undefined, "Alice", "developer"),
     JoinPayload("", "Alice", "developer"),
     JoinPayload("alpha", Undefined, "developer"),
     JoinPayload("alpha", "", "developer"),
     JoinPayload("alpha", "Alice", Undefined),
     JoinPayload("alpha", "Alice", ""),
     JoinPayload("alpha", "Alice", "admin"),
     NullPayload}
JoinPayloads(c) == ValidJoinPayloads(c) \cup InvalidJoinPayloads

ChatPayloads == [content : Contents \cup {Undefined}] \cup {NullPayload}

\* no excludeUserId argument
NoUser == 0

\* value of joinedTo for a connection whose membership has ended
Left == "<left>"

(* ------------------------------- state -------------------------------- *)
VARIABLES
    readyState,  \* per connection: readyState of its socket
    userId,      \* per connection: the uuid allotted on 'connection' (0: none yet)
    nRooms,      \* number of rooms created so far
    rooms,       \* WSServer.rooms : room id -> Room
    users,       \* WSServer.users : user id -> User
    sent,        \* the writes of the last handled event, in order
    joinedTo,    \* history: room name of the connection's latest successful join
                 \*          when no leave_room, error or close of the connection
                 \*          followed it; Left when one did; "" when it never joined
    lastEvent,   \* history: the last handled event
    firstWrite,  \* history, per connection: type of the first message ever
                 \*          written to it ("" when none was)
    nEstablished,\* history, per connection: number of connection_established
                 \*          written to it
    disconnected,\* history, per connection: its 'error' or 'close' handler ran
    throwing,    \* the sockets whose send() threw during the last event
                 \* (none outside SpecThrow)
    nChats,      \* history, per connection: numbered chat messages it has sent
    received,    \* history, per connection: the numbered chat messages written
                 \*          to its socket, in the order of arrival
                 \*          (kept by SpecFifo only)
    joinedAs,    \* history, per connection: userName and userRole of its latest
                 \*          successful join, <<>> when joinedTo is not a room name
    listening,   \* the WebSocketServer accepts connections (close() was not called)
    pending,     \* per connection: where the handleMessage call of its frame is
                 \* suspended at an await (SpecAsync only; Idle elsewhere)
    stats,       \* what the handled event returned when it is a read of getStats
    history,     \* ChatSDK.history : [messages, maxLength]
    nAdded,      \* history: number of messages chat() has added to the history
    inFlight,    \* the chat() calls that await the reply of the model, each
                 \* named by the content of its user message
    sdkOp,       \* history: the last call of the ChatSDK, its argument and the
                 \*          messages of the history before it
    modelCall,   \* history: messages and temperature of the last call of
                 \*          openai.chat.completions.create
    now,         \* Date.now(), in milliseconds
    data,        \* MemoryDatabase.data : key -> DatabaseRecord
    cache,       \* CacheManager.cache : key -> CacheItem
    file,        \* the records of the data file
    loading,     \* the loadFromFile() of the constructor has not finished
    nSets,       \* history: number of calls of set
    setLog,      \* history: value -> key, time and ttl of the set that wrote it
    dbOp         \* history: the last call of the MemoryDatabase and its result

relayVars == <<readyState, userId, nRooms, rooms, users, sent, joinedTo, lastEvent,
               firstWrite, nEstablished, disconnected, throwing, nChats, received,
               joinedAs, listening, pending, stats>>
sdkVars == <<history, nAdded, inFlight, sdkOp, modelCall>>
dbVars == <<now, data, cache, file, loading, nSets, setLog, dbOp>>
vars == <<relayVars, sdkVars, dbVars>>

(* ------------------------- Map<K,V> helpers --------------------------- *)
MapSet(m, k, v) == [x \in DOMAIN m \cup {k} |-> IF x = k THEN v ELSE m[x]]
\* mutant: delete removes nothing
MapDeleteNone(m, k) == m
MapDelete(m, k) == [x \in DOMAIN m \ {k} |-> m[x]]
EmptyMap == [x \in {} |-> 0]

(* ------------------------- MemoryDatabase ----------------------------- *)
\* `ttl * 1000`: the ttl is in seconds, Date.now() in milliseconds
MsPerSecond == 1000
Keys == {"k1", "k2"}
\* the options of set: none, or { ttl }
CacheOptions == {NullPayload} \cup {[ttl |-> t] : t \in 0..MaxTtl}
\* options?.ttl, 0 standing for undefined as well: the code only tests that
\* it is truthy
optionsTtl(options) ==
    IF HasPayload(options) /\ "ttl" \in DOMAIN options THEN options.ttl ELSE 0
\* what get returns for a key without a live record
Null == "<null>"

\* { value, createdAt: Date.now(), expiresAt: ttl ? Date.now() + ttl * 1000
\* : undefined }, the literal of MemoryDatabase.set and of CacheManager.set
NewRecord(value, ttl, t) ==
    IF ttl # 0
    THEN [value |-> value, createdAt |-> t, expiresAt |-> t + ttl * MsPerSecond]
    ELSE [value |-> value, createdAt |-> t]

\* item.expiresAt && item.expiresAt < Date.now()
isExpired(item, t) ==
    "expiresAt" \in DOMAIN item /\ item.expiresAt # 0 /\ item.expiresAt < t

\* CacheManager.set(key, value, ttl)
CacheManagerSet(c, key, value, ttl, t) == MapSet(c, key, NewRecord(value, ttl, t))

\* CacheManager.get(key): the value returned and the cache afterwards
CacheManagerGet(c, key, t) ==
    IF key \notin DOMAIN c THEN [value |-> Null, cache |-> c]
    ELSE IF isExpired(c[key], t) THEN [value |-> Null, cache |-> MapDelete(c, key)]
    ELSE [value |-> c[key].value, cache |-> c]

\* CacheManager.cleanup()
cleanup(c, t) == [k \in {x \in DOMAIN c : ~isExpired(c[x], t)} |-> c[k]]

\* room.users is a Map keyed by user id; it iterates in insertion order, so
\* it is kept as the sequence of its values
SeqIds(us) == {us[i].id : i \in 1..Len(us)}
UsersSet(us, user) ==
    IF user.id \in SeqIds(us)
    THEN [i \in 1..Len(us) |-> IF us[i].id = user.id THEN user ELSE us[i]]
    ELSE Append(us, user)
\* mutant: the member is not removed from room.users
UsersDeleteNone(us, id) == us
\* mutant: the oldest member is removed, whoever leaves
UsersDeleteFirst(us, id) == Tail(us)
UsersDelete(us, id) == SelectSeq(us, LAMBDA u : u.id # id)

(* ------------------------------ sending ------------------------------- *)
\* uuidv4() never returns a value twice.  Ids are compared only with ids of
\* the same kind, so each kind is numbered on its own: user ids by the
\* number of accepted connections, room ids by the number of rooms created.
\* The ids of messages are neither stored nor compared by the server; a
\* message is named by its number among the messages its event constructs.
\*
\* The server state threaded through a handler.
\*   rooms, users : the two maps;  out : writes so far;
\*   nRooms : rooms created so far;  nMsgs : messages constructed by the event
\*   throws : the sockets whose send() throws during the event
\*
\* mutant: a send that throws makes the server drop the user of that socket
sendToUserDropsDead(st, ws, message) ==
    IF readyState[ws] = "OPEN"
    THEN IF ws \in st.throws
         THEN [st EXCEPT !.users =
                  [u \in {v \in DOMAIN st.users : st.users[v].socket # ws}
                      |-> st.users[u]]]
         ELSE [st EXCEPT !.out = Append(@, [to |-> ws, msg |-> message])]
    ELSE st
\* a send that throws is caught and logged: nothing is written
sendToUser(st, ws, message) ==
    IF readyState[ws] = "OPEN"
    THEN IF ws \in st.throws THEN st
         ELSE [st EXCEPT !.out = Append(@, [to |-> ws, msg |-> message])]
    ELSE st

\* mutant: no error reply is written
sendErrorNone(st, ws, error) == st
sendError(st, ws, error) ==
    sendToUser(st, ws, [type |-> "error", payload |-> [error |-> error]])

\* mutant: the member list is always empty
getRoomUsersNone(st, roomId) == <<>>
getRoomUsers(st, roomId) ==
    IF roomId \notin DOMAIN st.rooms THEN <<>>
    ELSE LET us == st.rooms[roomId].users
         IN [i \in 1..Len(us) |->
                [id |-> us[i].id, name |-> us[i].name, role |-> us[i].role]]

\* mutant: excludeUserId is ignored
isRecipientNoExclude(user, excludeUserId) == readyState[user.socket] = "OPEN"
\* the condition under which broadcastToRoom writes to a member
isRecipient(user, excludeUserId) ==
    user.id # excludeUserId /\ readyState[user.socket] = "OPEN"

\* mutant: the iteration ends after the first member
forEachSendFirstOnly(st, us, message, excludeUserId) ==
    IF us = <<>> THEN st
    ELSE IF isRecipient(Head(us), excludeUserId)
    THEN sendToUser(st, Head(us).socket, message)
    ELSE st

\* room.users.forEach of broadcastToRoom
\* mutant: a member whose socket is not open is dropped from the users map
RECURSIVE forEachSendReapsDead(_, _, _, _)
forEachSendReapsDead(st, us, message, excludeUserId) ==
    IF us = <<>> THEN st
    ELSE LET user == Head(us)
             st1 == IF isRecipient(user, excludeUserId)
                    THEN sendToUser(st, user.socket, message)
                    ELSE IF user.id # excludeUserId
                    THEN [st EXCEPT !.users = MapDelete(@, user.id)]
                    ELSE st
         IN forEachSendReapsDead(st1, Tail(us), message, excludeUserId)
RECURSIVE forEachSend(_, _, _, _)
forEachSend(st, us, message, excludeUserId) ==
    IF us = <<>> THEN st
    ELSE LET user == Head(us)
             st1 == IF isRecipient(user, excludeUserId)
                    THEN sendToUser(st, user.socket, message)
                    ELSE st
         IN forEachSend(st1, Tail(us), message, excludeUserId)

\* mutant: a broadcast goes to the members of the oldest room of the
\* directory, whichever room it is for
broadcastToRoomOldest(st, roomId, message, excludeUserId) ==
    IF roomId \notin DOMAIN st.rooms THEN st
    ELSE forEachSend(st,
             st.rooms[CHOOSE r \in DOMAIN st.rooms :
                          \A q \in DOMAIN st.rooms : r <= q].users,
             message, excludeUserId)
\* mutant: the room of a broadcast is never found
broadcastToRoomUnknownRoom(st, roomId, message, excludeUserId) == st
broadcastToRoom(st, roomId, message, excludeUserId) ==
    IF roomId \notin DOMAIN st.rooms THEN st
    ELSE forEachSend(st, st.rooms[roomId].users, message, excludeUserId)

\* mutant: the member list is not pushed
sendUserListSkipped(st, uid) == st
\* mutant: the member list is followed by the first chat message of the
\* first client, as if the room kept its messages for newcomers
sendUserListWithBacklog(st, uid) ==
    IF uid \notin DOMAIN st.users THEN st
    ELSE LET user == st.users[uid]
             st1 == sendToUser(st, user.socket,
                        [type |-> "user_list",
                         payload |-> [users |-> getRoomUsers(st, user.roomId)]])
         IN sendToUser(st1, user.socket,
                [type |-> "chat_message",
                 payload |-> [id |-> 0, type |-> "chat_message", userId |-> 1,
                              userName |-> "Alice", userRole |-> "product_manager",
                              content |-> 1]])
sendUserList(st, uid) ==
    IF uid \notin DOMAIN st.users THEN st
    ELSE LET user == st.users[uid] IN
         IF user.roomId \notin DOMAIN st.rooms THEN st
         ELSE sendToUser(st, user.socket,
                  [type |-> "user_list",
                   payload |-> [users |-> getRoomUsers(st, user.roomId)]])

(* ------------------------------ handlers ------------------------------ *)
SystemMessage(id, userName, what) ==
    [id |-> id, type |-> "system_message", userName |-> "system",
     content |-> <<userName, what>>]

\* mutant: an empty room stays in the directory
deleteIfEmptyNever(st, roomId) == st
\* the room is deleted when its last member has been removed
deleteIfEmpty(st, roomId) ==
    IF Len(st.rooms[roomId].users) = 0
    THEN [st EXCEPT !.rooms = MapDelete(@, roomId)]
    ELSE st

\* mutant: leaving without being in a room throws, as chat_message does
leaveUnknownUserThrows(st, uid) ==
    sendError(st, CHOOSE c \in Conns : userId[c] = uid, "user is in no room")
\* handleLeaveRoom for a user id that is not in the users map: plain return
leaveUnknownUser(st, uid) == st

handleLeaveRoom(st, uid) ==
    IF uid \notin DOMAIN st.users THEN leaveUnknownUser(st, uid)
    ELSE LET user == st.users[uid] IN
         IF user.roomId \notin DOMAIN st.rooms THEN st
         ELSE LET room == st.rooms[user.roomId]
                  room1 == [room EXCEPT !.users = UsersDelete(@, uid)]
                  st1 == [st EXCEPT !.rooms = MapSet(@, room.id, room1),
                                    !.users = MapDelete(@, uid)]
                  message ==
                      [type |-> "user_left",
                       payload |->
                         [user |-> [id |-> user.id, name |-> user.name,
                                    role |-> user.role],
                          users |-> getRoomUsers(st1, room.id),
                          message |-> SystemMessage(st.nMsgs + 1, user.name, "left")]]
                  st2 == broadcastToRoom([st1 EXCEPT !.nMsgs = @ + 1],
                                         room.id, message, NoUser)
              IN deleteIfEmpty(st2, room.id)

\* mutant: the lookup by name finds nothing
RoomsNamedNone(st, roomName) == {}
RoomsNamed(st, roomName) == {r \in DOMAIN st.rooms : st.rooms[r].name = roomName}

\* Array.prototype.find: the first room of that name in the Map's order;
\* room ids are handed out in increasing order and a Map keeps insertion
\* order, so the first one is the one with the least id
findRoom(st, roomName) ==
    CHOOSE r \in RoomsNamed(st, roomName) :
        \A q \in RoomsNamed(st, roomName) : r <= q

\* mutant: a join leaves the previous room without telling its members
leavePreviousRoomQuiet(st, uid) ==
    [handleLeaveRoom(st, uid) EXCEPT !.out = st.out, !.nMsgs = st.nMsgs]
\* mutant: a join does not leave the previous room
leavePreviousRoomSkipped(st, uid) == st
\* "leave the previous room (if any)" at the start of a validated join
leavePreviousRoom(st, uid) == handleLeaveRoom(st, uid)

\* no room: the value of existingRoom when find returns undefined
NoRoom == 0

\* const existingRoom = Array.from(this.rooms.values()).find(...)
existingRoomNamed(st, roomName) ==
    IF RoomsNamed(st, roomName) # {} THEN findRoom(st, roomName) ELSE NoRoom

\* handleJoinRoom from "if (existingRoom)" on.  A room object that has been
\* deleted from the directory since it was found takes the new member all
\* the same, and stays out of the directory.
joinRoomFound(st0, uid, ws, payload, existingRoom) ==
    LET existing == existingRoom # NoRoom
        roomId == IF existing THEN existingRoom ELSE st0.nRooms + 1
        st1 == IF existing THEN st0
               ELSE [st0 EXCEPT
                       !.nRooms = @ + 1,
                       !.rooms = MapSet(@, roomId,
                                   [id |-> roomId, name |-> payload.roomName,
                                    users |-> <<>>])]
        user == [id |-> uid, socket |-> ws, role |-> payload.userRole,
                 name |-> payload.userName, roomId |-> roomId]
    IN IF roomId \notin DOMAIN st1.rooms
       THEN sendToUser([st1 EXCEPT !.users = MapSet(@, uid, user)], ws,
                [type |-> "room_joined",
                 payload |-> [roomId |-> roomId, roomName |-> payload.roomName,
                              userCount |-> 1]])
       ELSE
    LET st2 == [st1 EXCEPT
                  !.rooms = [@ EXCEPT ![roomId].users = UsersSet(@, user)],
                  !.users = MapSet(@, uid, user)]
        st3 == sendToUser(st2, ws,
                   [type |-> "room_joined",
                    payload |-> [roomId |-> roomId,
                                 roomName |-> st2.rooms[roomId].name,
                                 userCount |-> Len(st2.rooms[roomId].users)]])
        message ==
            [type |-> "user_joined",
             payload |->
               [user |-> [id |-> user.id, name |-> user.name, role |-> user.role],
                users |-> getRoomUsers(st3, roomId),
                message |-> SystemMessage(st3.nMsgs + 1, payload.userName, "joined")]]
        st4 == broadcastToRoom([st3 EXCEPT !.nMsgs = @ + 1], roomId, message, uid)
    IN sendUserList(st4, uid)

joinAfterValidation(st, uid, ws, payload) ==
    LET st0 == leavePreviousRoom(st, uid)
    IN joinRoomFound(st0, uid, ws, payload,
                     existingRoomNamed(st0, payload.roomName))

\* mutant: the role is not validated
joinErrorNoRoleCheck(payload) ==
    IF ~HasPayload(payload) THEN "TypeError"
    ELSE IF Falsy(payload.roomName) \/ Falsy(payload.userName)
            \/ Falsy(payload.userRole)
    THEN "missing roomName, userName, userRole"
    ELSE ""
\* The error a join_room payload is answered with, "" when it passes.  A
\* payload that is absent makes the destructuring throw a TypeError, which
\* handleMessage catches and answers with sendError.
joinError(payload) ==
    IF ~HasPayload(payload) THEN "TypeError"
    ELSE IF Falsy(payload.roomName) \/ Falsy(payload.userName)
            \/ Falsy(payload.userRole)
    THEN "missing roomName, userName, userRole"
    ELSE IF payload.userRole # "product_manager" /\ payload.userRole # "developer"
    THEN "invalid user role"
    ELSE ""

handleJoinRoom(st, uid, ws, payload) ==
    IF joinError(payload) # ""
    THEN sendError(st, ws, joinError(payload))
    ELSE joinAfterValidation(st, uid, ws, payload)

\* mutant: the identity fields of the frame are used when it carries them
handleChatMessageTrustsFrame(st, uid, ws, payload) ==
    IF uid \notin DOMAIN st.users
    THEN sendError(st, ws, "user is in no room")
    ELSE LET user == st.users[uid] IN
         IF ~HasPayload(payload)
         THEN sendError(st, ws, "TypeError")
         ELSE LET chatMessage ==
                      [id |-> st.nMsgs + 1, type |-> "chat_message",
                       userId |-> user.id,
                       userName |-> IF "userName" \in DOMAIN payload
                                    THEN payload.userName ELSE user.name,
                       userRole |-> user.role, content |-> payload.content]
              IN broadcastToRoom([st EXCEPT !.nMsgs = @ + 1], user.roomId,
                     [type |-> "chat_message", payload |-> chatMessage], uid)
\* mutant: a content that is missing or empty is answered with an error
handleChatMessageChecksContent(st, uid, ws, payload) ==
    IF uid \notin DOMAIN st.users
    THEN sendError(st, ws, "user is in no room")
    ELSE LET user == st.users[uid] IN
         IF ~HasPayload(payload)
         THEN sendError(st, ws, "TypeError")
         ELSE IF Falsy(payload.content)
         THEN sendError(st, ws, "missing content")
         ELSE LET chatMessage ==
                      [id |-> st.nMsgs + 1, type |-> "chat_message",
                       userId |-> user.id, userName |-> user.name,
                       userRole |-> user.role, content |-> payload.content]
              IN broadcastToRoom([st EXCEPT !.nMsgs = @ + 1], user.roomId,
                     [type |-> "chat_message", payload |-> chatMessage], uid)
\* The two throws and the TypeError of reading payload.content of an absent
\* payload end in the catch of handleMessage, which answers with sendError.
handleChatMessage(st, uid, ws, payload) ==
    IF uid \notin DOMAIN st.users
    THEN sendError(st, ws, "user is in no room")
    ELSE LET user == st.users[uid] IN
         IF user.roomId \notin DOMAIN st.rooms
         THEN sendError(st, ws, "room does not exist")
         ELSE IF ~HasPayload(payload)
         THEN sendError(st, ws, "TypeError")
         ELSE LET chatMessage ==
                      [id |-> st.nMsgs + 1, type |-> "chat_message",
                       userId |-> user.id, userName |-> user.name,
                       userRole |-> user.role, content |-> payload.content]
              IN broadcastToRoom([st EXCEPT !.nMsgs = @ + 1], user.roomId,
                     [type |-> "chat_message", payload |-> chatMessage], uid)

\* mutant: the member list goes to the whole room
handleListUsersToRoom(st, uid) ==
    IF uid \notin DOMAIN st.users THEN st
    ELSE broadcastToRoom(st, st.users[uid].roomId,
             [type |-> "user_list",
              payload |-> [users |-> getRoomUsers(st, st.users[uid].roomId)]],
             NoUser)
handleListUsers(st, uid) ==
    IF uid \notin DOMAIN st.users THEN st ELSE sendUserList(st, uid)

\* mutant: a disconnect cleans nothing up
handleDisconnectNoCleanup(st, uid) == st
\* mutant: a disconnect leaves the room but keeps the entry of the users map
handleDisconnectKeepsUser(st, uid) ==
    [handleLeaveRoom(st, uid) EXCEPT !.users = st.users]
handleDisconnect(st, uid) == handleLeaveRoom(st, uid)

MessageTypes == {"join_room", "chat_message", "leave_room", "list_users"}

\* mutant: a frame of an unknown type is dropped without a reply
handleMessageDropsUnknown(st, uid, ws, message) ==
    CASE message.type = "join_room" -> handleJoinRoom(st, uid, ws, message.payload)
      [] message.type = "chat_message" ->
             handleChatMessage(st, uid, ws, message.payload)
      [] message.type = "leave_room" -> handleLeaveRoom(st, uid)
      [] message.type = "list_users" -> handleListUsers(st, uid)
      [] OTHER -> st
handleMessage(st, uid, ws, message) ==
    CASE message.type = "join_room" -> handleJoinRoom(st, uid, ws, message.payload)
      [] message.type = "chat_message" ->
             handleChatMessage(st, uid, ws, message.payload)
      [] message.type = "leave_room" -> handleLeaveRoom(st, uid)
      [] message.type = "list_users" -> handleListUsers(st, uid)
      [] OTHER -> sendError(st, ws, "unknown message type")

(* ------------------------------ actions ------------------------------- *)
Server == [rooms |-> rooms, users |-> users, out |-> <<>>, nRooms |-> nRooms,
           nMsgs |-> 0, throws |-> {}]

\* no read of the stats: the stats of a relay without sessions
NoStats == [totalRooms |-> 0, totalUsers |-> 0, rooms |-> <<>>]
\* no call of handleMessage is suspended for the connection
Idle == [at |-> "none"]

\* install the result of a handler, or of the part of a handler that runs
\* between two awaits
CommitHandler(st) ==
    /\ st.nRooms <= MaxRooms
    /\ UNCHANGED <<sdkVars, dbVars>>
    /\ UNCHANGED listening
    /\ stats' = NoStats
    /\ rooms' = st.rooms
    /\ users' = st.users
    /\ nRooms' = st.nRooms
    /\ sent' = st.out
    /\ throwing' = st.throws
    /\ firstWrite' =
          [c \in Conns |->
              IF firstWrite[c] = "" /\ \E i \in 1..Len(st.out) : st.out[i].to = c
              THEN st.out[CHOOSE i \in 1..Len(st.out) :
                              /\ st.out[i].to = c
                              /\ \A j \in 1..(i - 1) : st.out[j].to # c].msg.type
              ELSE firstWrite[c]]
    /\ nEstablished' =
          [c \in Conns |->
              nEstablished[c]
              + Cardinality({i \in 1..Len(st.out) :
                    /\ st.out[i].to = c
                    /\ st.out[i].msg.type = "connection_established"})]

\* install the result of a handler that runs to its end
Commit(st) == CommitHandler(st) /\ UNCHANGED pending

\* history: the payload of a join_room passes the validation the protocol
\* states (section 6 of the specification)
JoinValid(p) ==
    /\ HasPayload(p)
    /\ ~Falsy(p.roomName) /\ ~Falsy(p.userName)
    /\ p.userRole \in UserRole

\* kind of event, its connection, whether its frame passed validation, and
\* the room name the connection was joined to when the event arrived
Event(kind, c, ok) ==
    [kind |-> kind, conn |-> c, ok |-> ok, was |-> joinedTo[c]]

InitRelay ==
    /\ readyState = [c \in Conns |-> "NONE"]
    /\ userId = [c \in Conns |-> 0]
    /\ nRooms = 0
    /\ rooms = EmptyMap
    /\ users = EmptyMap
    /\ sent = <<>>
    /\ joinedTo = [c \in Conns |-> ""]
    /\ lastEvent = [kind |-> "init", conn |-> 0, ok |-> TRUE, was |-> ""]
    /\ firstWrite = [c \in Conns |-> ""]
    /\ nEstablished = [c \in Conns |-> 0]
    /\ disconnected = [c \in Conns |-> FALSE]
    /\ throwing = {}
    /\ nChats = [c \in Conns |-> 0]
    /\ received = [c \in Conns |-> <<>>]
    /\ joinedAs = [c \in Conns |-> <<>>]
    /\ listening = TRUE
    /\ pending = [c \in Conns |-> Idle]
    /\ stats = NoStats

\* new ChatSDK(config, systemPrompt)
NewChatSDK(systemPrompt) ==
    [messages |-> IF Falsy(systemPrompt) THEN <<>>
                  ELSE <<[role |-> "system", content |-> systemPrompt]>>,
     maxLength |-> 20]

\* the ChatSDK of the translation endpoint is made without a system prompt
\* and nothing has called it yet
InitSdk ==
    /\ history = NewChatSDK(Undefined)
    /\ nAdded = 0
    /\ inFlight = {}
    /\ sdkOp = [op |-> "new", arg |-> Undefined, before |-> <<>>]
    /\ modelCall = [messages |-> <<>>, temperature |-> 7]

\* new MemoryDatabase(dataDir) on a directory without a data file
InitDb ==
    /\ now = MsPerSecond
    /\ data = EmptyMap
    /\ cache = EmptyMap
    /\ file = EmptyMap
    /\ loading = TRUE
    /\ nSets = 0
    /\ setLog = EmptyMap
    /\ dbOp = [op |-> "new", key |-> Undefined, result |-> Undefined]

Init == InitRelay /\ InitSdk /\ InitDb

\* uuidv4() for a user id
\* mutant: the generator repeats the id it drew first
NewUserIdRepeated == IF userId[1] = 0 THEN 1 ELSE userId[1]
NewUserId == 1 + Cardinality({c \in Conns : userId[c] # 0})

\* wss.on('connection'): connections are accepted in the order 1, 2, ...
Connect(c) ==
    /\ listening
    /\ readyState[c] = "NONE"
    /\ \A d \in Conns : d < c => readyState[d] # "NONE"
    /\ readyState' = [readyState EXCEPT ![c] = "OPEN"]
    /\ userId' = [userId EXCEPT ![c] = NewUserId]
    /\ LET msg == [type |-> "connection_established",
                   payload |-> [userId |-> NewUserId]]
       IN \* the socket is open when the 'connection' event is emitted
          Commit([Server EXCEPT !.out = Append(@, [to |-> c, msg |-> msg])])
    /\ lastEvent' = Event("connection", c, TRUE)
    /\ UNCHANGED <<joinedTo, joinedAs>>
    /\ UNCHANGED <<disconnected, nChats, received>>

\* ws.on('message') with a join_room frame
JoinRoom(c, p) ==
    /\ readyState[c] = "OPEN"
    /\ Commit(handleMessage(Server, userId[c], c,
                            [type |-> "join_room", payload |-> p]))
    /\ joinedTo' = IF JoinValid(p) THEN [joinedTo EXCEPT ![c] = p.roomName]
                   ELSE joinedTo
    /\ joinedAs' = IF JoinValid(p)
                   THEN [joinedAs EXCEPT ![c] = <<p.userName, p.userRole>>]
                   ELSE joinedAs
    /\ lastEvent' = Event("join_room", c, JoinValid(p))
    /\ UNCHANGED <<readyState, userId>>
    /\ UNCHANGED <<disconnected, nChats, received>>

\* ws.on('message') with a chat_message frame
ChatMessage(c, p) ==
    /\ readyState[c] = "OPEN"
    /\ Commit(handleMessage(Server, userId[c], c,
                            [type |-> "chat_message", payload |-> p]))
    /\ lastEvent' = Event("chat_message", c, HasPayload(p))
    /\ UNCHANGED <<readyState, userId, joinedTo, joinedAs>>
    /\ UNCHANGED <<disconnected, nChats, received>>

\* ws.on('message') with a leave_room frame
LeaveRoom(c) ==
    /\ readyState[c] = "OPEN"
    /\ Commit(handleMessage(Server, userId[c], c,
                            [type |-> "leave_room", payload |-> NullPayload]))
    /\ joinedTo' = [joinedTo EXCEPT ![c] = IF @ = "" THEN "" ELSE Left]
    /\ joinedAs' = [joinedAs EXCEPT ![c] = <<>>]
    /\ lastEvent' = Event("leave_room", c, TRUE)
    /\ UNCHANGED <<readyState, userId>>
    /\ UNCHANGED <<disconnected, nChats, received>>

\* ws.on('message') with a list_users frame
ListUsers(c) ==
    /\ readyState[c] = "OPEN"
    /\ Commit(handleMessage(Server, userId[c], c,
                            [type |-> "list_users", payload |-> NullPayload]))
    /\ lastEvent' = Event("list_users", c, TRUE)
    /\ UNCHANGED <<readyState, userId, joinedTo, joinedAs>>
    /\ UNCHANGED <<disconnected, nChats, received>>

\* ws.on('message') with a frame of any other type
UnknownType(c) ==
    /\ readyState[c] = "OPEN"
    /\ Commit(handleMessage(Server, userId[c], c,
                            [type |-> "ping", payload |-> NullPayload]))
    /\ lastEvent' = Event("unknown", c, FALSE)
    /\ UNCHANGED <<readyState, userId, joinedTo, joinedAs>>
    /\ UNCHANGED <<disconnected, nChats, received>>

\* ws.on('message') with data that JSON.parse rejects
Malformed(c) ==
    /\ readyState[c] = "OPEN"
    /\ Commit(sendError(Server, c, "malformed message"))
    /\ lastEvent' = Event("malformed", c, FALSE)
    /\ UNCHANGED <<readyState, userId, joinedTo, joinedAs>>
    /\ UNCHANGED <<disconnected, nChats, received>>

\* the peer starts the closing handshake: the socket stops being OPEN and
\* no further 'message' is emitted; 'close' follows later
Closing(c) ==
    /\ readyState[c] = "OPEN"
    /\ readyState' = [readyState EXCEPT ![c] = "CLOSING"]
    /\ Commit(Server)
    /\ lastEvent' = Event("closing", c, TRUE)
    /\ UNCHANGED <<userId, joinedTo, joinedAs>>
    /\ UNCHANGED <<disconnected, nChats, received>>

\* ws.on('error'): the socket is already CLOSING when the handler runs
SocketError(c) ==
    /\ readyState[c] \in {"OPEN", "CLOSING"}
    /\ readyState' = [readyState EXCEPT ![c] = "CLOSING"]
    /\ Commit(handleDisconnect(Server, userId[c]))
    /\ joinedTo' = [joinedTo EXCEPT ![c] = IF @ = "" THEN "" ELSE Left]
    /\ joinedAs' = [joinedAs EXCEPT ![c] = <<>>]
    /\ lastEvent' = Event("error", c, TRUE)
    /\ UNCHANGED userId
    /\ disconnected' = [disconnected EXCEPT ![c] = TRUE]
    /\ UNCHANGED <<nChats, received>>

\* ws.on('close'): emitted once, the socket is CLOSED when the handler runs
SocketClose(c) ==
    /\ readyState[c] \in {"OPEN", "CLOSING"}
    /\ readyState' = [readyState EXCEPT ![c] = "CLOSED"]
    /\ Commit(handleDisconnect(Server, userId[c]))
    /\ joinedTo' = [joinedTo EXCEPT ![c] = IF @ = "" THEN "" ELSE Left]
    /\ joinedAs' = [joinedAs EXCEPT ![c] = <<>>]
    /\ lastEvent' = Event("close", c, TRUE)
    /\ UNCHANGED userId
    /\ disconnected' = [disconnected EXCEPT ![c] = TRUE]
    /\ UNCHANGED <<nChats, received>>

\* ws.send: the message goes to the end of what the socket has been given
\* to transmit, and the transport keeps that order
\* mutant: the message overtakes what was written before
wsSendUnshift(stream, message) == <<message>> \o stream
wsSend(stream, message) == Append(stream, message)

\* the chat messages among the writes of an event, sent on the socket ws
RECURSIVE wsSendAll(_, _, _)
wsSendAll(stream, out, ws) ==
    IF out = <<>> THEN stream
    ELSE wsSendAll(IF Head(out).to = ws /\ Head(out).msg.type = "chat_message"
                   THEN wsSend(stream, Head(out).msg.payload)
                   ELSE stream,
                   Tail(out), ws)

\* ws.on('message') with the next numbered chat_message of the client: the
\* client numbers its chat messages 1, 2, ... in their content
ChatNumbered(c) ==
    /\ readyState[c] = "OPEN"
    /\ nChats[c] < MaxChats
    /\ LET st == handleMessage(Server, userId[c], c,
                     [type |-> "chat_message",
                      payload |-> [content |-> nChats[c] + 1]])
       IN /\ Commit(st)
          /\ received' = [d \in Conns |-> wsSendAll(received[d], st.out, d)]
    /\ nChats' = [nChats EXCEPT ![c] = @ + 1]
    /\ lastEvent' = Event("chat_message", c, TRUE)
    /\ UNCHANGED <<readyState, userId, joinedTo, joinedAs, disconnected>>

\* ws.on('message') with a chat_message or leave_room frame during whose
\* handling send() throws on the sockets T
FrameThrows(c, type, T) ==
    /\ readyState[c] = "OPEN"
    /\ T # {}
    /\ Commit(handleMessage([Server EXCEPT !.throws = T], userId[c], c,
                            [type |-> type, payload |-> [content |-> "hi"]]))
    /\ joinedTo' = IF type = "leave_room"
                   THEN [joinedTo EXCEPT ![c] = IF @ = "" THEN "" ELSE Left]
                   ELSE joinedTo
    /\ joinedAs' = IF type = "leave_room" THEN [joinedAs EXCEPT ![c] = <<>>]
                   ELSE joinedAs
    /\ lastEvent' = Event(type, c, TRUE)
    /\ UNCHANGED <<readyState, userId, disconnected, nChats, received>>

Next ==
    \/ \E c \in Conns : Connect(c)
    \/ \E c \in Conns : \E p \in JoinPayloads(c) : JoinRoom(c, p)
    \/ \E c \in Conns, p \in ChatPayloads : ChatMessage(c, p)
    \/ \E c \in Conns : LeaveRoom(c)
    \/ \E c \in Conns : ListUsers(c)
    \/ \E c \in Conns : UnknownType(c)
    \/ \E c \in Conns : Malformed(c)
    \/ \E c \in Conns : Closing(c)
    \/ \E c \in Conns : SocketError(c)
    \/ \E c \in Conns : SocketClose(c)

Spec == Init /\ [][Next]_vars

\* the relay with one room name and a first client that numbers its chat
\* messages; the clients join, leave, come back, close and disconnect
FifoJoinPayloads(c) == {p \in ValidJoinPayloads(c) : p.roomName = "alpha"}
NextFifo ==
    \/ \E c \in Conns : Connect(c)
    \/ \E c \in Conns : \E p \in FifoJoinPayloads(c) : JoinRoom(c, p)
    \/ ChatNumbered(1)
    \/ \E c \in Conns : LeaveRoom(c)
    \/ \E c \in Conns : Closing(c)
    \/ \E c \in Conns : SocketClose(c)

SpecFifo == Init /\ [][NextFifo]_vars

\* the relay with sockets whose send() may throw
NextThrow ==
    \/ \E c \in Conns : Connect(c)
    \/ \E c \in Conns : \E p \in ValidJoinPayloads(c) : JoinRoom(c, p)
    \/ \E c \in Conns : ChatMessage(c, [content |-> "hi"])
    \/ \E c \in Conns : LeaveRoom(c)
    \/ \E c \in Conns : Closing(c)
    \/ \E c \in Conns : SocketError(c)
    \/ \E c \in Conns : SocketClose(c)
    \/ \E c \in Conns, type \in {"chat_message", "leave_room"} :
           \E T \in SUBSET {d \in Conns : readyState[d] = "OPEN"} :
               FrameThrows(c, type, T)

SpecThrow == Init /\ [][NextThrow]_vars

\* Array.from(this.rooms.values()).map(...): a Map iterates in insertion
\* order, which is the order of the room ids
RECURSIVE roomsInfo(_, _)
roomsInfo(st, ids) ==
    IF ids = {} THEN <<>>
    ELSE LET r == CHOOSE x \in ids : \A y \in ids : x <= y
         IN <<[id |-> st.rooms[r].id, name |-> st.rooms[r].name,
               userCount |-> Len(st.rooms[r].users)]>>
            \o roomsInfo(st, ids \ {r})

\* mutant: totalUsers counts the open connections
getStatsCountsClients(st) ==
    [totalRooms |-> Cardinality(DOMAIN st.rooms),
     totalUsers |-> Cardinality({c \in Conns : readyState[c] = "OPEN"}),
     rooms |-> roomsInfo(st, DOMAIN st.rooms)]
getStats(st) ==
    [totalRooms |-> Cardinality(DOMAIN st.rooms),
     totalUsers |-> Cardinality(DOMAIN st.users),
     rooms |-> roomsInfo(st, DOMAIN st.rooms)]

\* GET /ws/stats (and GET /health): a read of getStats
GetStats ==
    /\ stats' = getStats(Server)
    /\ sent' = <<>>
    /\ lastEvent' = [kind |-> "stats", conn |-> 0, ok |-> TRUE, was |-> ""]
    /\ UNCHANGED <<readyState, userId, nRooms, rooms, users, joinedTo, joinedAs,
                   firstWrite, nEstablished, disconnected, throwing, nChats,
                   received, pending, listening>>
    /\ UNCHANGED <<sdkVars, dbVars>>

\* the relay with reads of the stats, chat messages that fail and members
\* whose socket is closing
NextStats ==
    \/ \E c \in Conns : Connect(c)
    \/ \E c \in Conns : \E p \in ValidJoinPayloads(c) : JoinRoom(c, p)
    \/ \E c \in Conns, p \in ChatPayloads : ChatMessage(c, p)
    \/ \E c \in Conns : ListUsers(c)
    \/ \E c \in Conns : LeaveRoom(c)
    \/ \E c \in Conns : Closing(c)
    \/ \E c \in Conns : SocketClose(c)
    \/ GetStats

SpecStats == Init /\ [][NextStats]_vars

\* The awaits of handleJoinRoom at which the function yields to the handlers
\* of other events before its last statement: it has none.  ("lookup" is
\* the place between the lookup of the room by name and the insertion of
\* the member.)
\* mutant: the join yields between the lookup and the insertion
joinYieldsAfterLookup == {"lookup"}
joinYields == {}

\* ws.on('message') with a valid join_room frame: handleMessage runs up to
\* the await at which it yields, which is the one of "await
\* this.handleJoinRoom(...)" once handleJoinRoom has run to its end
JoinBegin(c, p) ==
    /\ readyState[c] = "OPEN"
    /\ pending[c] = Idle
    /\ IF "lookup" \in joinYields
       THEN LET st0 == leavePreviousRoom(Server, userId[c])
            IN /\ CommitHandler(st0)
               /\ pending' = [pending EXCEPT ![c] =
                      [at |-> "lookup", payload |-> p,
                       existingRoom |-> existingRoomNamed(st0, p.roomName)]]
               /\ joinedTo' = [joinedTo EXCEPT ![c] = IF @ = "" THEN "" ELSE Left]
               /\ joinedAs' = [joinedAs EXCEPT ![c] = <<>>]
               /\ lastEvent' = Event("join_lookup", c, TRUE)
       ELSE /\ CommitHandler(handleMessage(Server, userId[c], c,
                                           [type |-> "join_room", payload |-> p]))
            /\ pending' = [pending EXCEPT ![c] = [at |-> "return"]]
            /\ joinedTo' = [joinedTo EXCEPT ![c] = p.roomName]
            /\ joinedAs' = [joinedAs EXCEPT ![c] = <<p.userName, p.userRole>>]
            /\ lastEvent' = Event("join_room", c, TRUE)
    /\ UNCHANGED <<readyState, userId, disconnected, nChats, received>>

\* the microtask that resumes the suspended call: the rest of
\* handleJoinRoom, or the end of handleMessage
Resume(c) ==
    /\ pending[c] # Idle
    /\ IF pending[c].at = "lookup"
       THEN /\ CommitHandler(joinRoomFound(Server, userId[c], c, pending[c].payload,
                                           pending[c].existingRoom))
            /\ pending' = [pending EXCEPT ![c] = [at |-> "return"]]
            /\ joinedTo' = [joinedTo EXCEPT ![c] = pending[c].payload.roomName]
            /\ joinedAs' = [joinedAs EXCEPT ![c] = <<pending[c].payload.userName,
                                                     pending[c].payload.userRole>>]
            /\ lastEvent' = Event("join_room", c, TRUE)
       ELSE /\ CommitHandler(Server)
            /\ pending' = [pending EXCEPT ![c] = Idle]
            /\ lastEvent' = Event("resumed", c, TRUE)
            /\ UNCHANGED <<joinedTo, joinedAs>>
    /\ UNCHANGED <<readyState, userId, disconnected, nChats, received>>

\* the relay with the suspended calls of handleMessage: the handlers of
\* other events run between the end of handleJoinRoom and the resumption
\* of the handleMessage that awaits it
NextAsync ==
    \/ \E c \in Conns : Connect(c)
    \/ \E c \in Conns : \E p \in ValidJoinPayloads(c) : JoinBegin(c, p)
    \/ \E c \in Conns : Resume(c)
    \/ \E c \in Conns : LeaveRoom(c)
    \/ \E c \in Conns : SocketClose(c)

SpecAsync == Init /\ [][NextAsync]_vars

\* WSServer.close(), which the SIGINT and SIGTERM handlers call: wss.close()
\* stops the server from accepting connections; it does not close the
\* connections there are (ws 8, the version that has the named exports the
\* class imports), and the class closes none itself
Shutdown ==
    /\ listening
    /\ listening' = FALSE
    /\ sent' = <<>>
    /\ lastEvent' = [kind |-> "shutdown", conn |-> 0, ok |-> TRUE, was |-> ""]
    /\ UNCHANGED <<readyState, userId, nRooms, rooms, users, joinedTo, joinedAs,
                   firstWrite, nEstablished, disconnected, throwing, nChats,
                   received, pending, stats>>
    /\ UNCHANGED <<sdkVars, dbVars>>

\* the relay until and after the shutdown hook has run
NextShutdown ==
    \/ \E c \in Conns : Connect(c)
    \/ \E c \in Conns : \E p \in ValidJoinPayloads(c) : JoinRoom(c, p)
    \/ \E c \in Conns : ChatMessage(c, [content |-> "hi"])
    \/ \E c \in Conns : LeaveRoom(c)
    \/ \E c \in Conns : SocketClose(c)
    \/ Shutdown

SpecShutdown == Init /\ [][NextShutdown]_vars

\* the relay with chat_message payloads of every shape: a content that is a
\* text, empty, absent or no string (a number), and a payload that
\* carries identity fields of its own
NotAString == "<number 42>"
SpoofedPayload ==
    [content |-> "spoofed", userId |-> 0, userName |-> "Mallory",
     userRole |-> "admin"]
AnyChatPayloads ==
    [content : {"hi", "", Undefined, NotAString}] \cup {SpoofedPayload}
NextAnyChat ==
    \/ \E c \in Conns : Connect(c)
    \/ \E c \in Conns : \E p \in ValidJoinPayloads(c) : JoinRoom(c, p)
    \/ \E c \in Conns, p \in AnyChatPayloads : ChatMessage(c, p)
    \/ \E c \in Conns : LeaveRoom(c)
    \/ \E c \in Conns : Closing(c)
    \/ \E c \in Conns : SocketClose(c)

SpecAnyChat == Init /\ [][NextAnyChat]_vars

(* --------------------- ChatSDK (pkg/agent/chat.ts) -------------------- *)
SystemPrompts == {"P1", "P2"}
IsSystem(msg) == msg.role = "system"
IsOther(msg) == msg.role # "system"

\* mutant: the oldest messages are kept
sliceOldest(array, start) ==
    IF start >= 0 THEN SubSeq(array, start + 1, Len(array))
    ELSE IF Len(array) + start <= 0 THEN array
    ELSE SubSeq(array, 1, -start)
\* Array.prototype.slice(start): from the index start, counted from the end
\* when start is negative; slice(0), which -0 is too, is the whole array
slice(array, start) ==
    IF start >= 0 THEN SubSeq(array, start + 1, Len(array))
    ELSE IF Len(array) + start <= 0 THEN array
    ELSE SubSeq(array, Len(array) + start + 1, Len(array))

\* history.maxLength is falsy: the history is not limited
NoLimit(maxLength) == maxLength = 0

addMessage(h, role, content) ==
    LET pushed == Append(h.messages, [role |-> role, content |-> content])
    IN IF ~NoLimit(h.maxLength) /\ Len(pushed) > h.maxLength
       THEN LET systemMessages == SelectSeq(pushed, IsSystem)
                hasSystem == systemMessages # <<>>
                otherMessages ==
                    slice(SelectSeq(pushed, IsOther),
                          (-h.maxLength) + (IF hasSystem THEN 1 ELSE 0))
            IN [h EXCEPT !.messages =
                    IF hasSystem THEN <<systemMessages[1]>> \o otherMessages
                    ELSE otherMessages]
       ELSE [h EXCEPT !.messages = pushed]

\* the arguments clearHistory is called with: none, true, false
KeepArgs == {Undefined, "true", "false"}
\* keepSystemPrompt: boolean = true
keepSystemPrompt(arg) == IF arg = Undefined THEN "true" ELSE arg

\* mutant: nothing is cleared
clearHistoryKeepsAll(h, arg) == h
clearHistory(h, arg) ==
    IF keepSystemPrompt(arg) = "true"
    THEN LET systemMessages == SelectSeq(h.messages, IsSystem)
         IN [h EXCEPT !.messages = IF systemMessages # <<>>
                                   THEN <<systemMessages[1]>> ELSE <<>>]
    ELSE [h EXCEPT !.messages = <<>>]

updateSystemPrompt(h, systemPrompt) ==
    IF \E i \in 1..Len(h.messages) : IsSystem(h.messages[i])
    THEN LET existingSystemIndex ==
                 CHOOSE i \in 1..Len(h.messages) :
                     /\ IsSystem(h.messages[i])
                     /\ \A j \in 1..(i - 1) : ~IsSystem(h.messages[j])
         IN [h EXCEPT !.messages[existingSystemIndex].content = systemPrompt]
    ELSE [h EXCEPT !.messages =
              <<[role |-> "system", content |-> systemPrompt]>> \o @]

setMaxHistoryLength(h, maxLength) == [h EXCEPT !.maxLength = maxLength]

\* { ...defaultOptions, ...options }.temperature, in tenths: the option when
\* the caller gives one, 0.7 of defaultOptions otherwise
mergedTemperature(options) ==
    IF "temperature" \in DOMAIN options THEN options.temperature ELSE 7

\* the text of the next message: every message chat() adds has its own text
NextContent == ToString(nAdded + 1)

SdkOp(op, arg) == [op |-> op, arg |-> arg, before |-> history.messages]

\* chat(userInput, options) up to its await: the user message is added and
\* the model is called with the history as it is then
Chat(options) ==
    /\ nAdded < MaxAdds
    /\ history' = addMessage(history, "user", NextContent)
    /\ nAdded' = nAdded + 1
    /\ inFlight' = inFlight \cup {NextContent}
    /\ sdkOp' = SdkOp("chat", NextContent)
    /\ modelCall' = [messages |-> history'.messages,
                     temperature |-> mergedTemperature(options)]
    /\ UNCHANGED <<relayVars, dbVars>>

\* chat() after its await: the reply of the model is added
ChatReply(call) ==
    /\ call \in inFlight
    /\ nAdded < MaxAdds
    /\ history' = addMessage(history, "assistant", NextContent)
    /\ nAdded' = nAdded + 1
    /\ inFlight' = inFlight \ {call}
    /\ sdkOp' = SdkOp("reply", NextContent)
    /\ UNCHANGED <<modelCall, relayVars, dbVars>>

\* chat() after its await when the call of the model failed: chat() throws
ChatFails(call) ==
    /\ call \in inFlight
    /\ inFlight' = inFlight \ {call}
    /\ sdkOp' = SdkOp("failed", call)
    /\ UNCHANGED <<history, nAdded, modelCall, relayVars, dbVars>>

ClearHistory(arg) ==
    /\ history' = clearHistory(history, arg)
    /\ sdkOp' = SdkOp("clearHistory", arg)
    /\ UNCHANGED <<nAdded, inFlight, modelCall, relayVars, dbVars>>

UpdateSystemPrompt(systemPrompt) ==
    /\ history' = updateSystemPrompt(history, systemPrompt)
    /\ sdkOp' = SdkOp("updateSystemPrompt", systemPrompt)
    /\ UNCHANGED <<nAdded, inFlight, modelCall, relayVars, dbVars>>

SetMaxHistoryLength(maxLength) ==
    /\ history' = setMaxHistoryLength(history, maxLength)
    /\ sdkOp' = SdkOp("setMaxHistoryLength", ToString(maxLength))
    /\ UNCHANGED <<nAdded, inFlight, modelCall, relayVars, dbVars>>

\* a ChatSDK made with or without a system prompt and then used through its
\* public methods, one chat() at a time
InitChatSDK ==
    /\ InitRelay
    /\ InitDb
    /\ \E systemPrompt \in {Undefined, "P1"} :
           /\ history = NewChatSDK(systemPrompt)
           /\ sdkOp = [op |-> "new", arg |-> systemPrompt, before |-> <<>>]
    /\ nAdded = 0
    /\ inFlight = {}
    /\ modelCall = [messages |-> <<>>, temperature |-> 7]

NextSdk ==
    \/ inFlight = {} /\ Chat(EmptyMap)
    \/ \E call \in inFlight : ChatReply(call)
    \/ \E call \in inFlight : ChatFails(call)
    \/ inFlight = {} /\ \E arg \in KeepArgs : ClearHistory(arg)
    \/ inFlight = {} /\ \E systemPrompt \in SystemPrompts :
                            UpdateSystemPrompt(systemPrompt)
    \/ inFlight = {} /\ \E maxLength \in 0..MaxLen : SetMaxHistoryLength(maxLength)

SpecSdk == InitChatSDK /\ [][NextSdk]_vars

(* ------------- translation endpoint (app/translation) ----------------- *)
TranslationTypes == {"product_to_tech", "tech_to_product"}
\* TRANSLATION_CONFIGS[type].systemPrompt
SystemPromptOf(type) == IF type = "product_to_tech" THEN "P1" ELSE "P2"

\* The bodies of the requests: a type, and options that are absent, without
\* a temperature, or with a temperature, which is kept in tenths.  The
\* content is a text the validation accepts, a new one for every request.
RequestOptions ==
    {NullPayload, [maxTokens |-> 2048]}
        \cup {[temperature |-> t] : t \in {-1, 0, 3, 7, 10, 11}}
RequestBodies == [type : TranslationTypes \cup {"other"}, options : RequestOptions]

HasTemperature(options) == HasPayload(options) /\ "temperature" \in DOMAIN options

\* translationSchema.validate(req.body).error
validationError(body) ==
    \/ body.type \notin TranslationTypes
    \/ /\ HasTemperature(body.options)
       /\ (body.options.temperature < 0 \/ body.options.temperature > 10)
\* translationSchema.validate(req.body).value: options that are given without
\* a temperature get the default one
validationValue(body) ==
    IF HasPayload(body.options) /\ ~HasTemperature(body.options)
    THEN [body EXCEPT !.options = MapSet(@, "temperature", 7)]
    ELSE body

\* options?.temperature || 0.7
chatOptionsTemperature(options) ==
    IF ~HasTemperature(options) THEN 7
    ELSE IF options.temperature = 0 THEN 7
    ELSE options.temperature

\* POST /translate: the validator, then translateController up to the await
\* of sdk.chat
Translate(reqBody) ==
    IF validationError(reqBody)
    THEN /\ sdkOp' = SdkOp("rejected", reqBody)
         /\ UNCHANGED <<history, nAdded, inFlight, modelCall, relayVars, dbVars>>
    ELSE LET body == validationValue(reqBody)
             chatOptions == [temperature |-> chatOptionsTemperature(body.options)]
             h == clearHistory(updateSystemPrompt(history, SystemPromptOf(body.type)),
                               "true")
         IN /\ nAdded < MaxAdds
            /\ history' = addMessage(h, "user", NextContent)
            /\ nAdded' = nAdded + 1
            /\ inFlight' = inFlight \cup {NextContent}
            /\ sdkOp' = SdkOp("translate", reqBody)
            /\ modelCall' = [messages |-> history'.messages,
                             temperature |-> mergedTemperature(chatOptions)]
            /\ UNCHANGED <<relayVars, dbVars>>

\* the translation endpoint: requests arrive while others await the model
NextTranslate ==
    \/ \E reqBody \in RequestBodies : Translate(reqBody)
    \/ \E call \in inFlight : ChatReply(call)
    \/ \E call \in inFlight : ChatFails(call)

SpecTranslate == Init /\ [][NextTranslate]_vars

(* ----------------------- the MemoryDatabase --------------------------- *)
DbOp(op, key, result) == [op |-> op, key |-> key, result |-> result]

\* MemoryDatabase.set(key, value, options); every call writes its own value
MemoryDatabaseSet(key, options) ==
    LET value == ToString(nSets + 1)
        ttl == optionsTtl(options)
    IN /\ nSets < MaxSets
       /\ data' = MapSet(data, key, NewRecord(value, ttl, now))
       /\ cache' = CacheManagerSet(cache, key, value, ttl, now)
       /\ file' = data'
       /\ nSets' = nSets + 1
       /\ setLog' = MapSet(setLog, value, [key |-> key, at |-> now, ttl |-> ttl])
       /\ dbOp' = DbOp("set", key, Undefined)
       /\ UNCHANGED <<now, loading, relayVars, sdkVars>>

\* MemoryDatabase.delete(key), as get and exists call it
deleteRecord(key) ==
    /\ data' = MapDelete(data, key)
    /\ file' = IF key \in DOMAIN data THEN data' ELSE file

\* MemoryDatabase.get(key)
MemoryDatabaseGet(key) ==
    LET cached == CacheManagerGet(cache, key, now)
    IN /\ IF cached.value # Null
          THEN /\ dbOp' = DbOp("get", key, cached.value)
               /\ cache' = cached.cache
               /\ UNCHANGED <<data, file>>
          ELSE IF key \notin DOMAIN data
          THEN /\ dbOp' = DbOp("get", key, Null)
               /\ cache' = cached.cache
               /\ UNCHANGED <<data, file>>
          ELSE IF isExpired(data[key], now)
          THEN /\ deleteRecord(key)
               /\ cache' = MapDelete(cached.cache, key)
               /\ dbOp' = DbOp("get", key, Null)
          ELSE /\ cache' = CacheManagerSet(cached.cache, key, data[key].value, 0, now)
               /\ dbOp' = DbOp("get", key, data[key].value)
               /\ UNCHANGED <<data, file>>
       /\ UNCHANGED <<now, loading, nSets, setLog, relayVars, sdkVars>>

\* MemoryDatabase.delete(key)
MemoryDatabaseDelete(key) ==
    /\ deleteRecord(key)
    /\ cache' = MapDelete(cache, key)
    /\ dbOp' = DbOp("delete", key, IF key \in DOMAIN data THEN "true" ELSE "false")
    /\ UNCHANGED <<now, loading, nSets, setLog, relayVars, sdkVars>>

\* MemoryDatabase.exists(key)
MemoryDatabaseExists(key) ==
    /\ IF key \notin DOMAIN data
       THEN /\ dbOp' = DbOp("exists", key, "false")
            /\ UNCHANGED <<data, file, cache>>
       ELSE IF isExpired(data[key], now)
       THEN /\ deleteRecord(key)
            /\ cache' = MapDelete(cache, key)
            /\ dbOp' = DbOp("exists", key, "false")
       ELSE /\ dbOp' = DbOp("exists", key, "true")
            /\ UNCHANGED <<data, file, cache>>
    /\ UNCHANGED <<now, loading, nSets, setLog, relayVars, sdkVars>>

\* the process is started again: new MemoryDatabase(dataDir) on the data
\* file of the one before, with an empty data map and a new CacheManager
NewMemoryDatabase ==
    /\ data' = EmptyMap
    /\ cache' = EmptyMap
    /\ loading' = TRUE
    /\ dbOp' = DbOp("new", Undefined, Undefined)
    /\ UNCHANGED <<now, file, nSets, setLog, relayVars, sdkVars>>

\* loadFromFile() after its await: the data map is replaced by the records
\* of the file
loadFromFile ==
    /\ loading
    /\ data' = file
    /\ loading' = FALSE
    /\ dbOp' = DbOp("load", Undefined, Undefined)
    /\ UNCHANGED <<now, cache, file, nSets, setLog, relayVars, sdkVars>>

\* the interval timer of the CacheManager
CleanupTimer ==
    /\ cache' = cleanup(cache, now)
    /\ dbOp' = DbOp("cleanup", Undefined, Undefined)
    /\ UNCHANGED <<now, data, file, loading, nSets, setLog, relayVars, sdkVars>>

\* a second passes
Tick ==
    /\ now < (1 + MaxTime) * MsPerSecond
    /\ now' = now + MsPerSecond
    /\ dbOp' = DbOp("tick", Undefined, Undefined)
    /\ UNCHANGED <<data, cache, file, loading, nSets, setLog, relayVars, sdkVars>>

NextDb ==
    \/ \E key \in Keys, options \in CacheOptions : MemoryDatabaseSet(key, options)
    \/ \E key \in Keys : MemoryDatabaseGet(key)
    \/ \E key \in Keys : MemoryDatabaseDelete(key)
    \/ \E key \in Keys : MemoryDatabaseExists(key)
    \/ NewMemoryDatabase
    \/ loadFromFile
    \/ CleanupTimer
    \/ Tick

SpecDb == Init /\ [][NextDb]_vars

(* ===================== properties of the relay ======================== *)
\* ids of the members of a live room, and of the room r after a step
MembersOf(r) == {rooms[r].users[i].id : i \in 1..Len(rooms[r].users)}
MembersAfter(r) ==
    IF r \in DOMAIN rooms'
    THEN {rooms'[r].users[i].id : i \in 1..Len(rooms'[r].users)}
    ELSE {}
\* ids of the sessions the history says are in the room of that name
InRoomNamed(n) == {userId[c] : c \in {d \in Conns : joinedTo[d] = n}}
\* number of writes of a type to a connection in a sequence of writes
Writes(out, c, type) ==
    Cardinality({i \in 1..Len(out) : out[i].to = c /\ out[i].msg.type = type})
\* number of user_left about the user uid written to the connection c
UserLeftFor(out, c, uid) ==
    Cardinality({i \in 1..Len(out) :
        /\ out[i].to = c
        /\ out[i].msg.type = "user_left"
        /\ out[i].msg.payload.user.id = uid})
Cleanup == {"leave_room", "error", "close"}

\* C1: the membership set of every live room is exactly the set of sessions
\* whose latest successful join was to that room name and that have since
\* neither left, switched rooms nor disconnected; no member is listed twice,
\* and every such session has a live room.
C1_MembershipExact ==
    /\ \A r \in DOMAIN rooms :
          /\ MembersOf(r) = InRoomNamed(rooms[r].name)
          /\ Cardinality(MembersOf(r)) = Len(rooms[r].users)
    /\ \A c \in Conns : joinedTo[c] \in RoomNames =>
          \E r \in DOMAIN rooms : rooms[r].name = joinedTo[c]

\* a room that keeps its other members after one disconnected from it
C1_Witness ==
    /\ lastEvent.kind = "close"
    /\ \E r \in DOMAIN rooms :
          rooms[r].name = lastEvent.was /\ Len(rooms[r].users) = NumConns - 1

\* C2: between handled events a room is in the directory if and only if it
\* has a member: no live room is empty, and a room name has a live room
\* exactly when some session is joined to it.
C2_RoomIffMembers ==
    /\ \A r \in DOMAIN rooms : rooms[r].users # <<>>
    /\ \A u \in DOMAIN users : users[u].roomId \in DOMAIN rooms
    /\ \A n \in RoomNames :
          (\E r \in DOMAIN rooms : rooms[r].name = n)
              <=> (\E c \in Conns : joinedTo[c] = n)

\* the last member of a room has just left it and the room is gone, while
\* another room is live
C2_Witness ==
    /\ lastEvent.kind \in Cleanup
    /\ lastEvent.was \in RoomNames
    /\ \A r \in DOMAIN rooms : rooms[r].name # lastEvent.was
    /\ rooms # EmptyMap

\* C3: no two live rooms have the same name, and a join to a name whose
\* live room has a member other than the joiner (so that the room is live
\* when the join looks it up) adds the joiner to that room, under its id.
C3_UniqueNames ==
    \A r, q \in DOMAIN rooms : rooms[r].name = rooms[q].name => r = q
C3_JoinsExisting ==
    (lastEvent'.kind = "join_room" /\ lastEvent'.ok) =>
        \A r \in DOMAIN rooms :
            (/\ rooms[r].name = joinedTo'[lastEvent'.conn]
             /\ MembersOf(r) \ {userId[lastEvent'.conn]} # {})
            => userId[lastEvent'.conn] \in MembersAfter(r)
C4_AtMostOneRoom ==
    \A c \in Conns :
        Cardinality({r \in DOMAIN rooms : userId[c] \in MembersOf(r)}) <= 1

\* a session has just joined a second room name while its first room lives on
C4_Witness ==
    /\ lastEvent.kind = "join_room" /\ lastEvent.ok
    /\ lastEvent.was \in RoomNames
    /\ lastEvent.was # joinedTo[lastEvent.conn]
    /\ \E r \in DOMAIN rooms : rooms[r].name = lastEvent.was
    /\ \E r \in DOMAIN rooms : userId[lastEvent.conn] \in MembersOf(r)

\* a member of room X has just joined the different room name Y
SwitchCase ==
    /\ lastEvent.kind = "join_room" /\ lastEvent.ok
    /\ lastEvent.was \in RoomNames
    /\ lastEvent.was # joinedTo[lastEvent.conn]

\* C5 as stated: after a member of X joined Y it is a member of Y only,
\* each remaining member of X has received one user_left for it, and X is
\* gone from the directory if it had no other member.
C5_SwitchAsStated ==
    SwitchCase =>
        LET c == lastEvent.conn
            X == lastEvent.was
        IN /\ \A r \in DOMAIN rooms :
                 userId[c] \in MembersOf(r) <=> rooms[r].name = joinedTo[c]
           /\ \E r \in DOMAIN rooms : userId[c] \in MembersOf(r)
           /\ \A d \in Conns \ {c} :
                 joinedTo[d] = X => UserLeftFor(sent, d, userId[c]) = 1
           /\ (\A d \in Conns \ {c} : joinedTo[d] # X)
                 => \A r \in DOMAIN rooms : rooms[r].name # X

\* C5 amended: ... each remaining member of X whose connection is open has
\* received exactly one user_left for it and no one else has received any;
\* X is gone from the directory exactly if it had no other member.
C5_Switch ==
    SwitchCase =>
        LET c == lastEvent.conn
            X == lastEvent.was
        IN /\ \A r \in DOMAIN rooms :
                 userId[c] \in MembersOf(r) <=> rooms[r].name = joinedTo[c]
           /\ \E r \in DOMAIN rooms : userId[c] \in MembersOf(r)
           /\ \A d \in Conns :
                 UserLeftFor(sent, d, userId[c]) =
                     IF d # c /\ joinedTo[d] = X /\ readyState[d] = "OPEN"
                     THEN 1 ELSE 0
           /\ (\A d \in Conns \ {c} : joinedTo[d] # X)
                 <=> (\A r \in DOMAIN rooms : rooms[r].name # X)

\* a member has switched rooms and the member it left behind, whose
\* connection is open, has received the user_left
C5_Witness ==
    /\ SwitchCase
    /\ \E d \in Conns \ {lastEvent.conn} :
          /\ joinedTo[d] = lastEvent.was /\ readyState[d] = "OPEN"
          /\ UserLeftFor(sent, d, userId[lastEvent.conn]) = 1

\* C6: a chat_message is never written to the connection of its sender.
C6_NoEcho ==
    \A i \in 1..Len(sent) :
        sent[i].msg.type = "chat_message" =>
            /\ sent[i].msg.payload.userId # userId[sent[i].to]
            /\ sent[i].to # lastEvent.conn

\* a chat message has just gone out to all the other members of the room
C6_Witness ==
    /\ lastEvent.kind = "chat_message"
    /\ Len(sent) = NumConns - 1
    /\ \A i \in 1..Len(sent) : sent[i].msg.type = "chat_message"
    /\ joinedTo[lastEvent.conn] \in RoomNames

\* a member of a room has just sent a chat_message with a payload
ChatCase ==
    /\ lastEvent.kind = "chat_message" /\ lastEvent.ok
    /\ lastEvent.was \in RoomNames

\* C7: a chat_message of a member is written exactly once to every other
\* member of its room whose connection is open when it is handled and to no
\* one else, it carries the sender's id, and no event other than the
\* chat_message itself writes a chat_message (no later join, leave or
\* disconnect adds a recipient).
C7_ExactlyOnce ==
    /\ ChatCase =>
          /\ \A d \in Conns :
                Writes(sent, d, "chat_message") =
                    IF /\ d # lastEvent.conn
                       /\ joinedTo[d] = lastEvent.was
                       /\ readyState[d] = "OPEN"
                    THEN 1 ELSE 0
          /\ \A i \in 1..Len(sent) :
                /\ sent[i].msg.type = "chat_message"
                /\ sent[i].msg.payload.userId = userId[lastEvent.conn]
    /\ \A i \in 1..Len(sent) :
          sent[i].msg.type = "chat_message" => lastEvent.kind = "chat_message"

\* a chat message of the member that created the room has reached a
\* member that joined it later
C7_Witness ==
    /\ ChatCase
    /\ \E d \in Conns, r \in DOMAIN rooms :
          /\ Writes(sent, d, "chat_message") = 1
          /\ rooms[r].users[1].id = userId[lastEvent.conn]
          /\ userId[d] \in MembersOf(r)

\* C8: leave_room of a session that is in no room (which is what a second
\* leave_room in a row is) changes neither map, writes nothing to anyone
\* and so answers with no error.
C8_LeaveNoRoomStep ==
    (/\ lastEvent'.kind = "leave_room"
     /\ lastEvent'.was \notin RoomNames)
    => /\ rooms' = rooms /\ users' = users /\ nRooms' = nRooms
       /\ sent' = <<>>
       /\ userId[lastEvent'.conn] \notin DOMAIN users
C8_LeaveIdempotent == [][C8_LeaveNoRoomStep]_vars

\* a session that has left its room sends leave_room again while a room is live
C8_Witness ==
    /\ lastEvent.kind = "leave_room"
    /\ lastEvent.was = Left
    /\ \E r \in DOMAIN rooms : TRUE

\* the user_left writes of a cleanup event, with the recipients as stated
\* (every remaining member) or restricted to the open connections
CleanupStep(openOnly) ==
    LET e == lastEvent'
        c == e.conn
        u == userId[c]
    IN e.kind \in Cleanup =>
        /\ e.was \in RoomNames =>
              /\ \A d \in Conns \ {c} :
                    (joinedTo[d] = e.was /\ (~openOnly \/ readyState[d] = "OPEN"))
                        => UserLeftFor(sent', d, u) = 1
              /\ \A d \in Conns :
                    (d = c \/ joinedTo[d] # e.was) => UserLeftFor(sent', d, u) = 0
              /\ \E r \in DOMAIN rooms :
                    /\ rooms[r].name = e.was
                    /\ u \in MembersOf(r)
                    /\ MembersAfter(r) = MembersOf(r) \ {u}
                    /\ \A q \in DOMAIN rooms \ {r} :
                          q \in DOMAIN rooms' /\ rooms'[q] = rooms[q]
        /\ e.was \notin RoomNames =>
              /\ sent' = <<>>
              /\ rooms' = rooms /\ users' = users

\* C9 as stated: leave_room, error and close clean a membership up the
\* same way and once: the event that ends the membership removes exactly
\* the session from its room and every remaining member receives exactly
\* one user_left; a later error or close of the session does nothing.
C9_CleanupOnceAsStated == [][CleanupStep(FALSE)]_vars

\* C9 amended: ... every remaining member whose connection is open receives
\* exactly one user_left, the session itself and the sessions outside the
\* room none ...
C9_CleanupOnce == [][CleanupStep(TRUE)]_vars

\* the close event of a connection whose membership an earlier leave_room
\* or error event had already ended, with members left in a room
C9_Witness ==
    /\ lastEvent.kind = "close"
    /\ lastEvent.was = Left
    /\ \E r \in DOMAIN rooms : Len(rooms[r].users) >= 1

\* C10: a join_room with a missing or empty roomName, userName or userRole
\* or with a role that is neither product_manager nor developer writes
\* exactly one error, to the sender, and changes neither the directory nor
\* any membership.
C10_InvalidJoinStep ==
    (lastEvent'.kind = "join_room" /\ ~lastEvent'.ok) =>
        /\ rooms' = rooms /\ users' = users /\ nRooms' = nRooms
        /\ Len(sent') = 1
        /\ sent'[1].to = lastEvent'.conn
        /\ sent'[1].msg.type = "error"
C10_InvalidJoin == [][C10_InvalidJoinStep]_vars

\* an invalid join_room from a member of a room that has another member
C10_Witness ==
    /\ lastEvent.kind = "join_room" /\ ~lastEvent.ok
    /\ lastEvent.was \in RoomNames
    /\ \E d \in Conns \ {lastEvent.conn} : joinedTo[d] = lastEvent.was
    /\ Len(sent) = 1

\* the writes of a sequence of writes that went to the connection c
WritesTo(out, c) == SelectSeq(out, LAMBDA w : w.to = c)
\* the ids listed in the users field of a payload
ListedIds(us) == {us[i].id : i \in 1..Len(us)}
BadFrames == {"unknown", "malformed"}

\* C11: a frame that cannot be parsed or whose type is unknown writes exactly
\* one error, to the sending connection, changes neither map and leaves the
\* connection open; a valid join_room that the same connection sends next is
\* processed (the connection becomes a member of the room it names).
C11_StillOpen ==
    lastEvent.kind \in BadFrames => readyState[lastEvent.conn] = "OPEN"
C11_BadFrameStep ==
    lastEvent'.kind \in BadFrames =>
        /\ rooms' = rooms /\ users' = users /\ nRooms' = nRooms
        /\ readyState' = readyState
        /\ Len(sent') = 1
        /\ sent'[1].to = lastEvent'.conn
        /\ sent'[1].msg.type = "error"
C11_ThenValidStep ==
    (/\ lastEvent.kind \in BadFrames
     /\ lastEvent'.kind = "join_room" /\ lastEvent'.ok
     /\ lastEvent'.conn = lastEvent.conn)
    => \E r \in DOMAIN rooms' :
          /\ rooms'[r].name = joinedTo'[lastEvent.conn]
          /\ userId[lastEvent.conn] \in MembersAfter(r)
C11_BadFrame ==
    []C11_StillOpen /\ [][C11_BadFrameStep /\ C11_ThenValidStep]_vars

\* a member of a room that has another member has just sent a frame of an
\* unknown type
C11_Witness ==
    /\ lastEvent.kind = "unknown"
    /\ lastEvent.was \in RoomNames
    /\ \E d \in Conns \ {lastEvent.conn} : joinedTo[d] = lastEvent.was
    /\ Len(sent) = 1

\* C12: a chat_message of a session that is in no room (it never joined, or
\* it left) writes exactly one error, to that session, writes no
\* chat_message to anyone and changes neither map.
C12_NoRoomChatStep ==
    (lastEvent'.kind = "chat_message" /\ lastEvent'.was \notin RoomNames) =>
        /\ rooms' = rooms /\ users' = users /\ nRooms' = nRooms
        /\ Len(sent') = 1
        /\ sent'[1].to = lastEvent'.conn
        /\ sent'[1].msg.type = "error"
C12_NoRoomChat == [][C12_NoRoomChatStep]_vars

\* a session that left its room sends a chat_message while the room lives on
C12_Witness ==
    /\ lastEvent.kind = "chat_message"
    /\ lastEvent.was = Left
    /\ rooms # EmptyMap
    /\ Len(sent) = 1

\* a join_room that passed validation has just been handled
JoinCase == lastEvent.kind = "join_room" /\ lastEvent.ok

\* C13: after a successful join the joiner has been written exactly two
\* messages: first room_joined, whose userCount is the number of members of
\* its room with the joiner, then user_list, which lists exactly the members
\* of the room, the joiner among them; it has been written no user_joined.
C13_JoinReplies ==
    JoinCase =>
        LET c == lastEvent.conn
            mine == WritesTo(sent, c)
        IN /\ userId[c] \in DOMAIN users
           /\ LET r == users[userId[c]].roomId
              IN /\ r \in DOMAIN rooms
                 /\ rooms[r].name = joinedTo[c]
                 /\ userId[c] \in MembersOf(r)
                 /\ Len(mine) = 2
                 /\ mine[1].msg.type = "room_joined"
                 /\ mine[1].msg.payload.userCount = Cardinality(MembersOf(r))
                 /\ mine[2].msg.type = "user_list"
                 /\ ListedIds(mine[2].msg.payload.users) = MembersOf(r)
                 /\ Len(mine[2].msg.payload.users) = Cardinality(MembersOf(r))
           /\ Writes(sent, c, "user_joined") = 0

\* a session has joined a room that had a member: userCount is 2
C13_Witness ==
    /\ JoinCase
    /\ \E i \in 1..Len(sent) :
          /\ sent[i].to = lastEvent.conn
          /\ sent[i].msg.type = "room_joined"
          /\ sent[i].msg.payload.userCount = 2

\* C14: after a successful join every other member of the room whose
\* connection is open has been written exactly one user_joined and no one
\* else has been written any; each user_joined names the joiner and lists
\* exactly the members of the room after the insertion.
C14_UserJoined ==
    JoinCase =>
        LET c == lastEvent.conn
        IN /\ \A d \in Conns :
                 Writes(sent, d, "user_joined") =
                     IF /\ d # c
                        /\ joinedTo[d] = joinedTo[c]
                        /\ readyState[d] = "OPEN"
                     THEN 1 ELSE 0
           /\ \A i \in 1..Len(sent) :
                 sent[i].msg.type = "user_joined" =>
                     /\ sent[i].msg.payload.user.id = userId[c]
                     /\ \E r \in DOMAIN rooms :
                           /\ rooms[r].name = joinedTo[c]
                           /\ ListedIds(sent[i].msg.payload.users) = MembersOf(r)
                           /\ userId[c] \in MembersOf(r)

\* the member of a room has been told of a session that joined it
C14_Witness ==
    /\ JoinCase
    /\ \E i \in 1..Len(sent) :
          /\ sent[i].msg.type = "user_joined"
          /\ sent[i].to # lastEvent.conn
          /\ Len(sent[i].msg.payload.users) = 2

\* C15: when leave_room, error or close ends a membership, every remaining
\* member whose connection is open is written exactly one user_left about
\* the leaver, whose users list is the membership without the leaver; the
\* leaver is written none; the room stays in the directory exactly when
\* members remain.
C15_UserLeftStep ==
    LET e == lastEvent'
        c == e.conn
        u == userId[c]
    IN (e.kind \in Cleanup /\ e.was \in RoomNames) =>
        \E r \in DOMAIN rooms :
            /\ rooms[r].name = e.was
            /\ u \in MembersOf(r)
            /\ \A d \in Conns \ {c} :
                  (joinedTo[d] = e.was /\ readyState[d] = "OPEN") =>
                      /\ UserLeftFor(sent', d, u) = 1
                      /\ Writes(sent', d, "user_left") = 1
            /\ \A i \in 1..Len(sent') :
                  sent'[i].msg.type = "user_left" =>
                      /\ sent'[i].to # c
                      /\ ListedIds(sent'[i].msg.payload.users)
                             = MembersOf(r) \ {u}
            /\ (r \in DOMAIN rooms') <=> (MembersOf(r) \ {u} # {})
            /\ MembersAfter(r) = MembersOf(r) \ {u}
C15_UserLeft == [][C15_UserLeftStep]_vars

\* the member that created a room has been told that the member that joined
\* it later is gone
C15_Witness ==
    /\ lastEvent.kind \in Cleanup
    /\ lastEvent.was \in RoomNames
    /\ \E i \in 1..Len(sent), r \in DOMAIN rooms :
          /\ sent[i].msg.type = "user_left"
          /\ rooms[r].name = lastEvent.was
          /\ Len(sent[i].msg.payload.users) = 1
          /\ sent[i].msg.payload.users[1].id = rooms[r].users[1].id

\* C16: a connected session that has not joined any room has a record in
\* the registry (the users map), stored at connect time.
C16_RegisteredOnConnect ==
    \A c \in Conns :
        (readyState[c] = "OPEN" /\ joinedTo[c] = "") =>
            userId[c] \in DOMAIN users

\* C17: every accepted connection has been written connection_established
\* exactly once, as the first message written to it; the message carries the
\* id of the connection's session and is written by the 'connection' event
\* of that connection; distinct connections have distinct ids.
C17_EstablishedFirst ==
    /\ \A c \in Conns :
          IF readyState[c] = "NONE"
          THEN nEstablished[c] = 0 /\ firstWrite[c] = ""
          ELSE nEstablished[c] = 1 /\ firstWrite[c] = "connection_established"
    /\ \A i \in 1..Len(sent) :
          sent[i].msg.type = "connection_established" =>
              /\ lastEvent.kind = "connection"
              /\ sent[i].to = lastEvent.conn
              /\ sent[i].msg.payload.userId = userId[sent[i].to]
    /\ \A c, d \in Conns :
          (c # d /\ readyState[c] # "NONE" /\ readyState[d] # "NONE")
              => userId[c] # userId[d]

\* every connection has been accepted and one of them has since been
\* written the messages of a join
C17_Witness ==
    /\ \A c \in Conns : nEstablished[c] = 1
    /\ JoinCase
    /\ Writes(sent, lastEvent.conn, "room_joined") = 1

\* the state of a session in the state machine of the protocol
SessionState(c) ==
    IF readyState[c] = "NONE" \/ disconnected[c] THEN "Disconnected"
    ELSE IF userId[c] \in DOMAIN users THEN "InRoom"
    ELSE "Connected"

\* C18: a session changes state only by the listed transitions (connect:
\* Disconnected to Connected; its join_room: to InRoom, also from InRoom;
\* its leave_room: InRoom to Connected; its error or close: to
\* Disconnected), and Disconnected after a disconnect is terminal: the
\* session stays disconnected, is in neither map and is written nothing.
C18_Terminal ==
    \A c \in Conns :
        disconnected[c] =>
            /\ userId[c] \notin DOMAIN users
            /\ \A r \in DOMAIN rooms : userId[c] \notin MembersOf(r)
            /\ WritesTo(sent, c) = <<>>
C18_TransitionStep ==
    \A c \in Conns :
        LET a == SessionState(c)
            b == SessionState(c)'
            mine == lastEvent'.conn = c
        IN /\ disconnected[c] => disconnected'[c]
           /\ a # b =>
                \/ /\ a = "Disconnected" /\ readyState[c] = "NONE"
                   /\ b = "Connected"
                   /\ mine /\ lastEvent'.kind = "connection"
                \/ /\ a = "Connected" /\ b = "InRoom"
                   /\ mine /\ lastEvent'.kind = "join_room"
                \/ /\ a = "InRoom" /\ b = "Connected"
                   /\ mine /\ lastEvent'.kind = "leave_room"
                \/ /\ a \in {"Connected", "InRoom"} /\ b = "Disconnected"
                   /\ mine /\ lastEvent'.kind \in {"error", "close"}
           /\ (a = "InRoom" /\ b = "InRoom"
               /\ users'[userId[c]] # users[userId[c]])
                => mine /\ lastEvent'.kind = "join_room"
C18_StateMachine == []C18_Terminal /\ [][C18_TransitionStep]_vars

\* a session that was a member of a room has disconnected, and after that
\* the member it left behind has sent a chat message
C18_Witness ==
    /\ \E c \in Conns : disconnected[c] /\ joinedTo[c] = Left
    /\ ChatCase
    /\ ~disconnected[lastEvent.conn]

C20_BroadcastStep ==
    LET e == lastEvent'
        c == e.conn
        eligible(d) == /\ d # c
                       /\ joinedTo[d] = e.was
                       /\ readyState[d] = "OPEN"
                       /\ d \notin throwing'
    IN (e.was \in RoomNames /\ e.ok) =>
        /\ e.kind = "chat_message" =>
              /\ \A d \in Conns :
                    Writes(sent', d, "chat_message") =
                        IF eligible(d) THEN 1 ELSE 0
              /\ rooms' = rooms /\ users' = users
        /\ e.kind = "leave_room" =>
              /\ \A d \in Conns :
                    UserLeftFor(sent', d, userId[c]) =
                        IF eligible(d) THEN 1 ELSE 0
              /\ \A r \in DOMAIN rooms :
                    MembersAfter(r) = MembersOf(r) \ {userId[c]}
              /\ DOMAIN users' = DOMAIN users \ {userId[c]}
        /\ e.kind \in {"chat_message", "leave_room"} =>
              \A i \in 1..Len(sent') : sent'[i].msg.type # "error"
C21_ListUsersStep ==
    lastEvent'.kind = "list_users" =>
        LET c == lastEvent'.conn
        IN /\ rooms' = rooms /\ users' = users /\ nRooms' = nRooms
           /\ IF userId[c] \in DOMAIN users
              THEN /\ Len(sent') = 1
                   /\ sent'[1].to = c
                   /\ sent'[1].msg.type = "user_list"
                   /\ ListedIds(sent'[1].msg.payload.users)
                          = MembersOf(users[userId[c]].roomId)
                   /\ Len(sent'[1].msg.payload.users)
                          = Cardinality(MembersOf(users[userId[c]].roomId))
              ELSE sent' = <<>>
           /\ (userId[c] \in DOMAIN users) <=> (lastEvent'.was \in RoomNames)
C21_ListUsers == [][C21_ListUsersStep]_vars

\* a member of a room with two members has asked for the member list
C21_Witness ==
    /\ lastEvent.kind = "list_users"
    /\ Len(sent) = 1
    /\ Len(sent[1].msg.payload.users) = 2

\* the chat_message payloads among the writes of the last event
ChatWrites == {sent[i].msg.payload : i \in {j \in 1..Len(sent) :
                                          sent[j].msg.type = "chat_message"}}

\* C26: every chat_message that is delivered carries the session id of the
\* sender and the name and role the sender gave in its latest successful
\* join_room, whatever the payload of the frame carries.
C26_ServerIdentity ==
    lastEvent.kind = "chat_message" =>
        \A m \in ChatWrites :
            /\ m.userId = userId[lastEvent.conn]
            /\ joinedAs[lastEvent.conn] = <<m.userName, m.userRole>>

\* the first client, whose latest join was under the name Bob, has sent a
\* chat_message with identity fields of its own and it was delivered
C26_Witness ==
    /\ lastEvent.kind = "chat_message"
    /\ lastEvent.conn = 1
    /\ joinedAs[1] = <<"Bob", "developer">>
    /\ \E m \in ChatWrites : m.content = "spoofed"

\* C27: a chat_message with a payload, from a session in a room, is
\* answered with no error and written once to every other member whose
\* socket is open, whatever its content is.
C27_AnyContent ==
    (/\ lastEvent.kind = "chat_message" /\ lastEvent.ok
     /\ lastEvent.was \in RoomNames) =>
        LET c == lastEvent.conn
            r == users[userId[c]].roomId
        IN /\ \A i \in 1..Len(sent) : sent[i].msg.type = "chat_message"
           /\ \A d \in Conns :
                  Writes(sent, d, "chat_message") =
                      IF /\ d # c /\ userId[d] \in MembersOf(r)
                         /\ readyState[d] = "OPEN"
                      THEN 1 ELSE 0
           /\ Cardinality(ChatWrites) <= 1

\* a chat_message whose content is no string has been delivered to another
\* member
C27_Witness ==
    /\ lastEvent.kind = "chat_message"
    /\ \E m \in ChatWrites : m.content = NotAString

\* C28: nothing is stored or replayed.  Every chat_message that is written
\* is the one of the frame that is being handled (it carries the number the
\* sender gave to that frame), every user_joined and user_left is about the
\* connection whose event is being handled and goes to others, and a join
\* writes to the joiner room_joined and user_list only.
C28_NoReplay ==
    /\ \A i \in 1..Len(sent) :
          LET m == sent[i].msg
              c == lastEvent.conn
          IN /\ m.type = "chat_message" =>
                   /\ lastEvent.kind = "chat_message"
                   /\ m.payload.userId = userId[c]
                   /\ m.payload.content = nChats[c]
             /\ m.type = "user_joined" =>
                   /\ JoinCase
                   /\ m.payload.user.id = userId[c]
                   /\ sent[i].to # c
             /\ m.type = "user_left" =>
                   /\ lastEvent.kind \in {"join_room", "leave_room", "error", "close"}
                   /\ m.payload.user.id = userId[c]
                   /\ sent[i].to # c
    /\ JoinCase =>
          \A i \in 1..Len(sent) :
              sent[i].to = lastEvent.conn =>
                  sent[i].msg.type \in {"room_joined", "user_list"}

\* the second client joins the room of the first one, in which it has been
\* before and in which chat messages were broadcast before this join, one
\* of them while it was away
C28_Witness ==
    /\ JoinCase
    /\ lastEvent.conn = 2
    /\ joinedTo[1] = "alpha"
    /\ received[2] # <<>>
    /\ Len(received[2]) < nChats[1]
    /\ Len(sent) = 3

\* C22: whatever the order in which the handlers of joins, leaves and
\* disconnects run and are resumed, every session of the users map is a
\* member of a room of the directory, no two rooms of the directory have
\* one name, no room of the directory is empty, and two sessions whose
\* latest joins name the same room are in one room.
C22_Serialized ==
    /\ \A u \in DOMAIN users :
          /\ users[u].roomId \in DOMAIN rooms
          /\ u \in MembersOf(users[u].roomId)
    /\ \A r \in DOMAIN rooms : \A q \in DOMAIN rooms :
          rooms[r].name = rooms[q].name => r = q
    /\ \A r \in DOMAIN rooms : rooms[r].users # <<>>
    /\ \A c \in Conns : \A d \in Conns :
          (joinedTo[c] \in RoomNames /\ joinedTo[c] = joinedTo[d]) =>
              /\ userId[c] \in DOMAIN users /\ userId[d] \in DOMAIN users
              /\ users[userId[c]].roomId = users[userId[d]].roomId

\* two sessions have joined the same room name, which no room had, and
\* neither call of handleMessage has been resumed yet: both are members of
\* the one room that was created
C22_Witness ==
    /\ pending[1] # Idle /\ pending[2] # Idle
    /\ joinedTo[1] \in RoomNames
    /\ joinedTo[1] = joinedTo[2]
    /\ nRooms = 1
    /\ users[userId[1]].roomId = users[userId[2]].roomId

\* C29: once the shutdown hook has run no connection is open.
C29_ShutdownClosesAll ==
    ~listening => \A c \in Conns : readyState[c] # "OPEN"

(* ===================== properties of the ChatSDK ====================== *)
\* the last call of the ChatSDK added a message to the history
Added == sdkOp.op \in {"chat", "reply"}
\* the history before that call with the message the call added
Pushed ==
    Append(sdkOp.before,
           [role |-> IF sdkOp.op = "chat" THEN "user" ELSE "assistant",
            content |-> sdkOp.arg])
IsSuffix(s, t) == \E k \in 0..Len(t) : s = SubSeq(t, k + 1, Len(t))

\* C23: clearHistory() without an argument leaves the history empty, system
\* prompt included; clearHistory(true) leaves the system prompt, when there
\* was one, and nothing else.
C23_ClearHistory ==
    sdkOp.op = "clearHistory" =>
        /\ sdkOp.arg = Undefined => history.messages = <<>>
        /\ sdkOp.arg = "true" =>
               history.messages = SubSeq(SelectSeq(sdkOp.before, IsSystem), 1, 1)

\* C24: after a message was added by chat() the history holds at most
\* maxLength messages, for every maxLength >= 1, with or without a system
\* prompt.
C24_AtMostMaxLength ==
    (Added /\ history.maxLength >= 1) =>
        Len(history.messages) <= history.maxLength

\* C30: after a message was added, the system prompt the history had is its
\* first message and its only system message, and the other messages are
\* the most recent ones, the added one included, in their order: a suffix
\* of the other messages there were; nothing is dropped from a history that
\* does not exceed the maximum length.
C30_KeepsMostRecent ==
    Added =>
        LET systemMessages == SelectSeq(Pushed, IsSystem)
            kept == SelectSeq(history.messages, IsOther)
        IN /\ IF systemMessages # <<>>
              THEN history.messages = <<systemMessages[1]>> \o kept
              ELSE history.messages = kept
           /\ IsSuffix(kept, SelectSeq(Pushed, IsOther))
           /\ kept # <<>>
           /\ (NoLimit(history.maxLength) \/ Len(Pushed) <= history.maxLength)
                  => history.messages = Pushed

\* a message was added to a history with a system prompt and trimming
\* dropped the oldest of the other messages and kept two
C30_Witness ==
    /\ Added
    /\ Len(history.messages) < Len(Pushed)
    /\ IsSystem(history.messages[1])
    /\ Len(history.messages) = 3

\* C25: a translate request that passes validation calls the model with the
\* temperature of its options when it gives one, whichever value of 0 .. 1
\* that is, and with 0.7 when it gives none.
C25_Temperature ==
    sdkOp.op = "translate" =>
        modelCall.temperature =
            IF HasTemperature(sdkOp.arg.options) THEN sdkOp.arg.options.temperature
            ELSE 7

(* ================= further properties of the relay ==================== *)
\* name of the room the connection is a member of, "" when it is in none
RoomNameOf(d) ==
    IF userId[d] \in DOMAIN users /\ users[userId[d]].roomId \in DOMAIN rooms
    THEN rooms[users[userId[d]].roomId].name
    ELSE ""

\* C31: every chat_message, user_joined, user_left and user_list that an
\* event writes goes to a session that is a member of the room it is about:
\* a chat_message to a member of the sender's room, a user_joined and a
\* user_list to a member of the room they list, which is the room just
\* joined (or the caller's own), a user_left to a member of the room that
\* was left, whose remaining members it lists.
C31_StaysInRoom ==
    \A i \in 1..Len(sent) :
        LET m == sent[i].msg
            d == sent[i].to
            c == lastEvent.conn
        IN /\ m.type = "chat_message" =>
                 /\ RoomNameOf(d) # ""
                 /\ users[userId[d]].roomId = users[userId[c]].roomId
           /\ m.type \in {"user_joined", "user_list"} =>
                 /\ RoomNameOf(d) # ""
                 /\ userId[d] \in ListedIds(m.payload.users)
                 /\ ListedIds(m.payload.users) = MembersOf(users[userId[d]].roomId)
                 /\ RoomNameOf(d) = joinedTo[c]
           /\ m.type = "user_left" =>
                 /\ RoomNameOf(d) # ""
                 /\ userId[d] \in ListedIds(m.payload.users)
                 /\ ListedIds(m.payload.users) \subseteq
                        MembersOf(users[userId[d]].roomId)
                 /\ RoomNameOf(d) = lastEvent.was

\* a member of one room has sent a chat_message while the other session is
\* a member of another room, and nothing was written
C31_Witness ==
    /\ ChatCase
    /\ RoomNameOf(1) # "" /\ RoomNameOf(2) # ""
    /\ RoomNameOf(1) # RoomNameOf(2)
    /\ sent = <<>>

\* C32: the users map and the directory agree.  Every session of the users
\* map names a room of the directory whose members hold that very record,
\* and every member of every room is in the users map, with the same record
\* and with the id of that room.
C32_MapsAgree ==
    /\ \A u \in DOMAIN users :
          /\ users[u].id = u
          /\ users[u].roomId \in DOMAIN rooms
          /\ \E i \in 1..Len(rooms[users[u].roomId].users) :
                 rooms[users[u].roomId].users[i] = users[u]
    /\ \A r \in DOMAIN rooms :
          /\ rooms[r].id = r
          /\ \A i \in 1..Len(rooms[r].users) :
                 LET member == rooms[r].users[i]
                 IN /\ member.id \in DOMAIN users
                    /\ users[member.id] = member
                    /\ member.roomId = r
                    /\ \A j \in 1..Len(rooms[r].users) :
                           rooms[r].users[j].id = member.id => j = i

\* the two sessions are members of two rooms, the first one after it has
\* left the room of the second one for a room of its own
C32_Witness ==
    /\ JoinCase
    /\ lastEvent.conn = 1
    /\ lastEvent.was \in RoomNames
    /\ lastEvent.was = joinedTo[2]
    /\ joinedTo[1] # joinedTo[2]
    /\ Cardinality(DOMAIN rooms) = 2
    /\ Cardinality(DOMAIN users) = 2

\* C33: a chat_message, a list_users and a read of the stats leave the
\* directory, every membership and the users map as they were, also when
\* the chat_message fails or a member's socket is not open.
C33_ReadOnlyStep ==
    lastEvent'.kind \in {"chat_message", "list_users", "stats"} =>
        /\ rooms' = rooms
        /\ users' = users
        /\ nRooms' = nRooms
C33_ReadOnly == [][C33_ReadOnlyStep]_vars

\* a member has sent a chat_message while the socket of the other member of
\* its room was closing: nothing was written and both are members still
C33_Witness ==
    /\ ChatCase
    /\ sent = <<>>
    /\ \E r \in DOMAIN rooms : Len(rooms[r].users) = 2
    /\ \E d \in Conns : readyState[d] = "CLOSING" /\ userId[d] \in DOMAIN users

\* sum of the userCount of the rooms of a stats result
RECURSIVE SumUserCount(_)
SumUserCount(info) ==
    IF info = <<>> THEN 0 ELSE Head(info).userCount + SumUserCount(Tail(info))

\* C34: in every state what getStats returns is consistent: totalRooms is
\* the number of rooms of the directory, which are the rooms listed, every
\* listed room has a userCount of at least 1, and totalUsers is the sum of
\* the userCounts, which is the number of sessions that are in a room.
C34_StatsNow ==
    LET s == getStats(Server)
    IN /\ s.totalRooms = Cardinality(DOMAIN rooms)
       /\ Len(s.rooms) = s.totalRooms
       /\ {s.rooms[i].id : i \in 1..Len(s.rooms)} = DOMAIN rooms
       /\ \A i \in 1..Len(s.rooms) :
              /\ s.rooms[i].userCount >= 1
              /\ s.rooms[i].userCount = Cardinality(MembersOf(s.rooms[i].id))
              /\ s.rooms[i].name = rooms[s.rooms[i].id].name
       /\ s.totalUsers = SumUserCount(s.rooms)
       /\ s.totalUsers = Cardinality({c \in Conns : joinedTo[c] \in RoomNames})
C34_StatsRead == lastEvent.kind = "stats" => stats = getStats(Server)
C34_Stats == C34_StatsNow /\ C34_StatsRead

\* the stats have been read while two rooms had one member each
C34_Witness ==
    /\ lastEvent.kind = "stats"
    /\ stats.totalRooms = 2
    /\ stats.totalUsers = 2
    /\ Len(stats.rooms) = 2

\* the step is a successful join of the room name the session is a member of
RejoinStep ==
    /\ lastEvent'.kind = "join_room" /\ lastEvent'.ok
    /\ lastEvent'.was \in RoomNames
    /\ joinedTo'[lastEvent'.conn] = lastEvent'.was
\* what a rejoin leaves, whoever is told: one membership, in the one room of
\* that name; the same room when it had other members, a room with a new id
\* in place of the old one when it had none
RejoinRooms ==
    LET c == lastEvent'.conn
        u == userId[c]
        r == users[u].roomId
        n == users'[u].roomId
    IN /\ {q \in DOMAIN rooms' : rooms'[q].name = lastEvent'.was} = {n}
       /\ {q \in DOMAIN rooms' : u \in MembersAfter(q)} = {n}
       /\ Cardinality({i \in 1..Len(rooms'[n].users) : rooms'[n].users[i].id = u}) = 1
       /\ IF MembersOf(r) # {u}
          THEN /\ n = r
               /\ MembersAfter(r) = MembersOf(r)
          ELSE /\ r \notin DOMAIN rooms'
               /\ n \notin DOMAIN rooms
               /\ n # r
               /\ MembersAfter(n) = {u}
\* the other members in Told have been written user_left and then
\* user_joined about the session and nothing else, the others nothing
RejoinTells(Told) ==
    LET c == lastEvent'.conn
        u == userId[c]
    IN \A d \in Conns \ {c} :
           LET mine == WritesTo(sent', d)
           IN IF d \in Told
              THEN /\ Len(mine) = 2
                   /\ mine[1].msg.type = "user_left"
                   /\ mine[2].msg.type = "user_joined"
                   /\ mine[1].msg.payload.user.id = u
                   /\ mine[2].msg.payload.user.id = u
              ELSE mine = <<>>
OtherMembersBefore ==
    {d \in Conns \ {lastEvent'.conn} :
        userId[d] \in MembersOf(users[userId[lastEvent'.conn]].roomId)}

\* C35 as stated: every other member of the room is written user_left
\* followed by user_joined.
C35_RejoinAsStatedStep ==
    RejoinStep => (RejoinRooms /\ RejoinTells(OtherMembersBefore))
C35_RejoinAsStated == [][C35_RejoinAsStatedStep]_vars

\* C35, amended: a session that joins the room name it is a member of ends
\* with one membership in the one live room of that name; with other
\* members present the room keeps its id and those of them whose socket is
\* open are written user_left followed by user_joined (the others nothing);
\* when it was the sole member the room is deleted and a room with a new id
\* is created.
C35_RejoinStep ==
    RejoinStep =>
        (RejoinRooms
         /\ RejoinTells({d \in OtherMembersBefore : readyState[d] = "OPEN"}))
C35_Rejoin == [][C35_RejoinStep]_vars

\* a session has rejoined the room it shares with the other session, which
\* was written user_left and then user_joined
C35_Witness ==
    /\ JoinCase
    /\ lastEvent.was = joinedTo[lastEvent.conn]
    /\ Cardinality(DOMAIN users) = 2
    /\ Cardinality(DOMAIN rooms) = 1
    /\ Len(sent) = 4
    /\ sent[1].msg.type = "user_left"
    /\ sent[3].msg.type = "user_joined"

(* ============ further properties of the translation endpoint ========== *)
\* C36: the model is called, by every translate request and whatever the
\* requests that await their reply and the replies that have arrived, with
\* two messages: the system prompt of the type of the request and the
\* content of the request.
C36_OwnMessages ==
    sdkOp.op = "translate" =>
        modelCall.messages =
            <<[role |-> "system", content |-> SystemPromptOf(sdkOp.arg.type)],
              [role |-> "user", content |-> ToString(nAdded)]>>

\* a request calls the model while another awaits its reply and the
\* history holds the prompt of the other type and the reply to an earlier
\* request
C36_Witness ==
    /\ sdkOp.op = "translate"
    /\ Cardinality(inFlight) >= 2
    /\ Len(sdkOp.before) >= 3
    /\ sdkOp.before[1].content # SystemPromptOf(sdkOp.arg.type)
    /\ \E i \in 1..Len(sdkOp.before) : sdkOp.before[i].role = "assistant"

(* ================= properties of the MemoryDatabase =================== *)
\* the ttl given to the set that wrote the value has elapsed
TtlElapsed(value) ==
    /\ setLog[value].ttl # 0
    /\ now > setLog[value].at + setLog[value].ttl * MsPerSecond

\* C37: get never returns a value whose ttl, given to set in seconds, has
\* elapsed, whatever calls of set, get, exists and delete and whatever
\* reloads of the data from the file came before.
C37_NoExpiredValue ==
    (dbOp.op = "get" /\ dbOp.result # Null) => ~TtlElapsed(dbOp.result)

====
